---- MODULE Spec2Model ----
(***************************************************************************)
(* Model of the glob-driven listing engine of simple-fs:                   *)
(*   GlobsFileIter / process_globs   (src/src/list/globs_file_iter.rs)     *)
(*   GlobsDirIter                    (src/src/globs_dir_iter.rs)           *)
(*   get_glob_set / get_depth / longest_base_path_wild_free (src/src/glob.rs)*)
(*   SPath                           (src/src/spath.rs)                    *)
(*                                                                         *)
(* A string is a sequence of one-character strings, so that the string     *)
(* operations of the code (prefix stripping, splitting on '/', byte        *)
(* length, glob compilation) are computed as the code computes them.       *)
(***************************************************************************)
EXTENDS Integers, Sequences, FiniteSets, TLC

\* ------------------------------------------------------------------ strings

\* Option<T>
None == [some |-> FALSE, val |-> <<>>]
Some(v) == [some |-> TRUE, val |-> v]

\* a value bound to a name: a `let` of the source
Bind(val, F(_)) == F(val)

\* str::starts_with
StrStartsWith(s, p) == Len(p) <= Len(s) /\ SubSeq(s, 1, Len(p)) = p

\* &s[n..]
DropN(s, n) == SubSeq(s, n + 1, Len(s))

\* str::contains(char)
HasChar(s, c) == \E i \in 1..Len(s) : s[i] = c

\* str::contains(&str)
HasSub(s, p) == \E i \in 1..(Len(s) - Len(p) + 1) : SubSeq(s, i, i + Len(p) - 1) = p

\* str::find(char), 0 when absent
FirstIndex(s, c) ==
  IF HasChar(s, c)
  THEN CHOOSE i \in 1..Len(s) : s[i] = c /\ \A j \in 1..(i - 1) : s[j] # c
  ELSE 0

\* str::split(char): the pieces between the separators, empty pieces included
RECURSIVE SplitOn(_, _)
SplitOn(s, c) ==
  LET i == FirstIndex(s, c)
  IN IF i = 0 THEN <<s>>
     ELSE <<SubSeq(s, 1, i - 1)>> \o SplitOn(DropN(s, i), c)

\* str::trim_start_matches("./")
RECURSIVE trim_start_dot_slash(_)
trim_start_dot_slash(s) ==
  IF StrStartsWith(s, <<".", "/">>) THEN trim_start_dot_slash(DropN(s, 2)) ELSE s

\* str::trim: leading and trailing white space removed
RECURSIVE trim(_)
trim(s) ==
  IF s = <<>> THEN s
  ELSE IF s[1] = " " THEN trim(Tail(s))
  ELSE IF s[Len(s)] = " " THEN trim(SubSeq(s, 1, Len(s) - 1))
  ELSE s

\* byte order of the characters the model uses (ASCII)
Ord(c) ==
  CASE c = " " -> 32 [] c = "!" -> 33 [] c = "*" -> 42 [] c = "," -> 44
    [] c = "." -> 46 [] c = "/" -> 47 [] c = "?" -> 63 [] c = "[" -> 91
    [] c = "_" -> 95
    [] c = "a" -> 97 [] c = "b" -> 98 [] c = "c" -> 99 [] c = "d" -> 100
    [] c = "e" -> 101 [] c = "f" -> 102 [] c = "g" -> 103 [] c = "i" -> 105
    [] c = "l" -> 108 [] c = "m" -> 109 [] c = "n" -> 110 [] c = "o" -> 111
    [] c = "p" -> 112 [] c = "r" -> 114 [] c = "s" -> 115 [] c = "t" -> 116
    [] c = "u" -> 117 [] c = "D" -> 68 [] c = "S" -> 83
    [] c = "{" -> 123 [] c = "}" -> 125
    [] OTHER -> 127

\* Ord for String: lexicographic on bytes
RECURSIVE StrLess(_, _)
StrLess(a, b) ==
  IF b = <<>> THEN FALSE
  ELSE IF a = <<>> THEN TRUE
  ELSE IF a[1] # b[1] THEN Ord(a[1]) < Ord(b[1])
  ELSE StrLess(Tail(a), Tail(b))

\* ------------------------------------------------------------------ SPath

\* into_normalized: "//" collapsed, "/./" removed, a leading "./" kept
RECURSIVE NormLoop(_, _, _, _)
NormLoop(s, i, result, last_was_slash) ==
  IF i > Len(s) THEN result
  ELSE IF s[i] = "/"
    THEN NormLoop(s, i + 1, IF last_was_slash THEN result ELSE Append(result, "/"), TRUE)
  ELSE IF s[i] = "." /\ last_was_slash /\ i < Len(s) /\ s[i + 1] = "/" /\ result # <<>>
    THEN NormLoop(s, i + 2, result, last_was_slash)
  ELSE NormLoop(s, i + 1, Append(result, s[i]), FALSE)

needs_normalize(s) == HasSub(s, <<"/", "/">>) \/ HasSub(s, <<"/", ".">>)

into_normalized(s) ==
  IF ~needs_normalize(s) THEN s
  ELSE Bind(NormLoop(s, 1, <<>>, FALSE), LAMBDA r :
         IF s[Len(s)] = "/" /\ (r = <<>> \/ r[Len(r)] # "/") THEN Append(r, "/") ELSE r)

\* SPath::new
SPathNew(s) == into_normalized(s)

RootDir == <<"/">>
CurDir == <<".">>
ParentDir == <<".", ".">>

RECURSIVE KeepComponents(_, _, _)
KeepComponents(parts, i, rooted) ==
  IF i > Len(parts) THEN <<>>
  ELSE LET p == parts[i]
           keep == p # <<>> /\ (p # CurDir \/ (i = 1 /\ ~rooted))
       IN (IF keep THEN <<p>> ELSE <<>>) \o KeepComponents(parts, i + 1, rooted)

\* Path::components (Unix): the root, then the non-empty pieces; "." is kept
\* only as the first component of a relative path
Components(s) ==
  LET rooted == s # <<>> /\ s[1] = "/"
  IN (IF rooted THEN <<RootDir>> ELSE <<>>) \o KeepComponents(SplitOn(s, "/"), 1, rooted)

\* SPath::is_absolute
is_absolute(s) == s # <<>> /\ s[1] = "/"

\* PathBuf::push
PathPush(buf, leaf) ==
  IF is_absolute(leaf) THEN leaf
  ELSE IF buf = <<>> THEN leaf
  ELSE IF buf[Len(buf)] = "/" THEN buf \o leaf
  ELSE buf \o <<"/">> \o leaf

\* PathBuf: FromIterator<Component>
RECURSIVE PathCollect(_, _)
PathCollect(buf, comps) ==
  IF comps = <<>> THEN buf ELSE PathCollect(PathPush(buf, Head(comps)), Tail(comps))

\* a join that keeps the leaf only
join_leaf_only(s, leaf) == SPathNew(leaf)

\* SPath::join
join(s, leaf) == SPathNew(PathPush(s, leaf))

\* SPath::starts_with: whole components only
starts_with(s, base) ==
  Bind(Components(s), LAMBDA a :
  Bind(Components(base), LAMBDA b :
    Len(b) <= Len(a) /\ SubSeq(a, 1, Len(b)) = b))

\* pathdiff::diff_utf8_paths, on components
RECURSIVE DiffLoop(_, _, _)
DiffLoop(ita, itb, comps) ==
  IF ita = <<>> /\ itb = <<>> THEN Some(comps)
  ELSE IF itb = <<>> THEN Some(comps \o ita)
  ELSE IF ita = <<>> THEN DiffLoop(<<>>, Tail(itb), Append(comps, ParentDir))
  ELSE IF comps = <<>> /\ Head(ita) = Head(itb) THEN DiffLoop(Tail(ita), Tail(itb), comps)
  ELSE IF Head(itb) = CurDir THEN DiffLoop(Tail(ita), Tail(itb), Append(comps, Head(ita)))
  ELSE IF Head(itb) = ParentDir THEN None
  ELSE Some(comps \o <<ParentDir>> \o [k \in 1..(Len(itb) - 1) |-> ParentDir] \o ita)

\* SPath::diff
diff(path, base) ==
  IF is_absolute(path) # is_absolute(base)
  THEN (IF is_absolute(path) THEN Some(path) ELSE None)
  ELSE Bind(DiffLoop(Components(path), Components(base), <<>>), LAMBDA d :
         IF d.some THEN Some(SPathNew(PathCollect(<<>>, d.val))) ELSE None)

\* ------------------------------------------------------------------ globset

\* globset::glob::Token
Tok(t, c, alts) == [t |-> t, c |-> c, alts |-> alts]
Literal(c) == Tok("Literal", c, <<>>)
AnyTok == Tok("Any", "", <<>>)
ZeroOrMore == Tok("ZeroOrMore", "", <<>>)
RecursivePrefix == Tok("RecursivePrefix", "", <<>>)
RecursiveSuffix == Tok("RecursiveSuffix", "", <<>>)
RecursiveZeroOrMore == Tok("RecursiveZeroOrMore", "", <<>>)
Alternates(alts) == Tok("Alternates", "", alts)

ParseFail == [ok |-> FALSE, toks |-> <<>>, next |-> 0]

\* Parser::parse_star at s[i] = "*": a lone star is ZeroOrMore; a double star
\* that is a whole path component becomes a recursive token, swallowing the
\* separators around it; any other double star is two ZeroOrMore
parse_star(s, i, toks, inAlt) ==
  IF i + 1 > Len(s) \/ s[i + 1] # "*"
  THEN [toks |-> Append(toks, ZeroOrMore), next |-> i + 1]
  ELSE
    LET j == i + 2
        hasPeek == j <= Len(s)
        peek == IF hasPeek THEN s[j] ELSE ""
        prevSep == i > 1 /\ s[i - 1] = "/"
        two == [toks |-> toks \o <<ZeroOrMore, ZeroOrMore>>, next |-> j]
        isSuffix == ~hasPeek \/ (inAlt /\ peek \in {",", "}"})
        popped == toks[Len(toks)]
        front == SubSeq(toks, 1, Len(toks) - 1)
        rec == IF popped.t = "RecursivePrefix" THEN RecursivePrefix
               ELSE IF popped.t = "RecursiveSuffix" THEN RecursiveSuffix
               ELSE IF isSuffix THEN RecursiveSuffix
               ELSE RecursiveZeroOrMore
    IN IF toks = <<>>
       THEN (IF hasPeek /\ peek # "/"
             THEN two
             ELSE [toks |-> <<RecursivePrefix>>, next |-> IF hasPeek THEN j + 1 ELSE j])
       ELSE IF ~prevSep THEN two
       ELSE IF isSuffix THEN [toks |-> Append(front, rec), next |-> j]
       ELSE IF peek = "/" THEN [toks |-> Append(front, rec), next |-> j + 1]
       ELSE two

\* Parser::parse: the tokens of s from index i, up to the end of the string or,
\* inside braces, up to the next "," or "}".  A character class and a nested
\* brace group are outside the patterns the model draws.
RECURSIVE ParseFrom(_, _, _, _)
RECURSIVE ParseAlts(_, _, _)
ParseFrom(s, i, toks, inAlt) ==
  IF i > Len(s) THEN [ok |-> ~inAlt, toks |-> toks, next |-> i]
  ELSE IF inAlt /\ s[i] \in {",", "}"} THEN [ok |-> TRUE, toks |-> toks, next |-> i]
  ELSE IF s[i] = "}" \/ s[i] = "[" THEN ParseFail
  ELSE IF s[i] = "{"
    THEN IF inAlt THEN ParseFail
         ELSE Bind(ParseAlts(s, i + 1, <<>>), LAMBDA a :
                IF ~a.ok THEN ParseFail
                ELSE ParseFrom(s, a.next, Append(toks, Alternates(a.toks)), inAlt))
  ELSE IF s[i] = "?" THEN ParseFrom(s, i + 1, Append(toks, AnyTok), inAlt)
  ELSE IF s[i] = "*"
    THEN Bind(parse_star(s, i, toks, inAlt), LAMBDA r : ParseFrom(s, r.next, r.toks, inAlt))
  ELSE ParseFrom(s, i + 1, Append(toks, Literal(s[i])), inAlt)

ParseAlts(s, i, alts) ==
  Bind(ParseFrom(s, i, <<>>, TRUE), LAMBDA b :
    IF ~b.ok THEN ParseFail
    ELSE IF s[b.next] = "," THEN ParseAlts(s, b.next + 1, Append(alts, b.toks))
    ELSE [ok |-> TRUE, toks |-> Append(alts, b.toks), next |-> b.next + 1])

\* Glob::new / GlobBuilder::build
GlobParse(pattern) == ParseFrom(pattern, 1, <<>>, FALSE)

\* The regular expression of a token list matched against s from index si
\* (Tokens::to_regex_with); ls is GlobOptions::literal_separator
RECURSIVE TokMatch(_, _, _, _, _)
TokMatch(toks, ti, s, si, ls) ==
  IF ti > Len(toks) THEN si > Len(s)
  ELSE
    LET k == toks[ti]
        n == Len(s)
    IN CASE k.t = "Literal" ->
              si <= n /\ s[si] = k.c /\ TokMatch(toks, ti + 1, s, si + 1, ls)
         [] k.t = "Any" ->
              si <= n /\ (ls => s[si] # "/") /\ TokMatch(toks, ti + 1, s, si + 1, ls)
         [] k.t = "ZeroOrMore" ->
              \E e \in si..(n + 1) :
                 /\ \A j \in si..(e - 1) : ls => s[j] # "/"
                 /\ TokMatch(toks, ti + 1, s, e, ls)
         [] k.t = "RecursivePrefix" ->
              \/ TokMatch(toks, ti + 1, s, si, ls)
              \/ \E e \in si..n : s[e] = "/" /\ TokMatch(toks, ti + 1, s, e + 1, ls)
         [] k.t = "RecursiveSuffix" ->
              /\ si <= n /\ s[si] = "/"
              /\ \E e \in (si + 1)..(n + 1) : TokMatch(toks, ti + 1, s, e, ls)
         [] k.t = "RecursiveZeroOrMore" ->
              /\ si <= n /\ s[si] = "/"
              /\ \E e \in si..n : s[e] = "/" /\ TokMatch(toks, ti + 1, s, e + 1, ls)
         [] OTHER ->
              \E b \in 1..Len(k.alts) :
                 TokMatch(k.alts[b] \o SubSeq(toks, ti + 1, Len(toks)), 1, s, si, ls)

\* GlobMatcher::is_match: a glob that is only "**" matches everything
GlobIsMatch(toks, s, ls) ==
  IF toks = <<RecursivePrefix>> THEN TRUE ELSE TokMatch(toks, 1, s, 1, ls)

\* a compiled GlobSet: the token lists of its globs and the separator option
GlobSetOf(globs, ls) == [globs |-> [i \in 1..Len(globs) |-> GlobParse(globs[i]).toks], ls |-> ls]

\* does every pattern of the list compile
GlobsCompile(globs) == \A i \in 1..Len(globs) : GlobParse(globs[i]).ok

\* get_glob_set that accepts every pattern
glob_cant_new_never(globs) == None

\* the Err of get_glob_set: Error::GlobCantNew with the first pattern of the
\* list that does not build, None when get_glob_set is Ok
glob_cant_new(globs) ==
  IF GlobsCompile(globs) THEN None
  ELSE Some(globs[CHOOSE i \in 1..Len(globs) :
                    /\ ~GlobParse(globs[i]).ok
                    /\ \A j \in 1..(i - 1) : GlobParse(globs[j]).ok])

\* get_glob_set: GlobBuilder with literal_separator(true)
get_glob_set(globs) == GlobSetOf(globs, TRUE)

\* GlobSet::is_match
is_match(set, s) == \E i \in 1..Len(set.globs) : GlobIsMatch(set.globs[i], s, set.ls)

\* ------------------------------------------------------------------ file system

\* The directory tree the traversals run on.  A node is the sequence of the
\* names from the root; the process's working directory is /p.
\*   /p/f   /p/s/f   /p/s/g   /p/s/t/f   /p/.git/c   /p/ b/f   /q/f
N_p == <<"p">>
N_q == <<"q">>
N_s == <<"s">>
N_t == <<"t">>
N_f == <<"f">>
N_g == <<"g">>
N_c == <<"c">>
N_git == <<".", "g", "i", "t">>
N_sp_b == <<" ", "b">>

FsDirs ==
  { <<>>, <<N_p>>, <<N_q>>, <<N_p, N_s>>, <<N_p, N_s, N_t>>, <<N_p, N_git>>, <<N_p, N_sp_b>> }

FsFiles ==
  { <<N_p, N_f>>, <<N_p, N_s, N_f>>, <<N_p, N_s, N_g>>, <<N_p, N_s, N_t, N_f>>,
    <<N_p, N_git, N_c>>, <<N_p, N_sp_b, N_f>>, <<N_q, N_f>> }

CwdNode == <<N_p>>

\* fs::read_dir: the names in a directory, in the order the system lists them
ReadDir(node) ==
  CASE node = <<>> -> <<N_p, N_q>>
    [] node = <<N_p>> -> <<N_git, N_f, N_s, N_sp_b>>
    [] node = <<N_q>> -> <<N_f>>
    [] node = <<N_p, N_s>> -> <<N_f, N_t, N_g>>
    [] node = <<N_p, N_s, N_t>> -> <<N_f>>
    [] node = <<N_p, N_git>> -> <<N_c>>
    [] node = <<N_p, N_sp_b>> -> <<N_f>>
    [] OTHER -> <<>>

\* the node a path string denotes (the system's path resolution from the
\* working directory), and whether it exists
RECURSIVE ResolveLoop(_, _)
ResolveLoop(cur, comps) ==
  IF comps = <<>> THEN cur
  ELSE LET c == Head(comps)
       IN IF c = RootDir THEN ResolveLoop(<<>>, Tail(comps))
          ELSE IF c = CurDir THEN ResolveLoop(cur, Tail(comps))
          ELSE IF c = ParentDir
            THEN ResolveLoop(IF cur = <<>> THEN cur ELSE SubSeq(cur, 1, Len(cur) - 1), Tail(comps))
          ELSE ResolveLoop(Append(cur, c), Tail(comps))

Resolve(path) == ResolveLoop(CwdNode, Components(path))

Exists(node) == node \in FsDirs \/ node \in FsFiles

\* ------------------------------------------------------------------ walkdir

\* walkdir::IntoIter: `started` is false until the root entry was produced;
\* the stack holds one open directory per level, each with the names not yet
\* produced; `fresh` is true until the first name is asked of the directory.
\* `reads` lists the directories whose names were asked for, each with the
\* number `tag` of the walk that read it.
Frame(path, node) == [path |-> path, node |-> node, rest |-> ReadDir(node), fresh |-> TRUE]

NewWalk == [started |-> FALSE, stack |-> <<>>]

NoEnt == [path |-> <<>>, node |-> <<>>, isdir |-> FALSE, depth |-> 0]

\* IntoIter::next once the root was produced.  max_depth is an Option.
RECURSIVE RawLoop(_, _, _, _)
RawLoop(max_depth, stack, reads, tag) ==
  IF stack = <<>>
  THEN [kind |-> "none", stack |-> stack, reads |-> reads, ent |-> NoEnt]
  ELSE
    LET top == stack[Len(stack)]
        below == SubSeq(stack, 1, Len(stack) - 1)
        reads2 == IF top.fresh THEN Append(reads, [g |-> tag, node |-> top.node]) ELSE reads
    IN IF max_depth.some /\ Len(stack) > max_depth.val THEN RawLoop(max_depth, below, reads, tag)
       ELSE IF top.rest = <<>> THEN RawLoop(max_depth, below, reads2, tag)
       ELSE
         LET name == Head(top.rest)
             node == Append(top.node, name)
             path == PathPush(top.path, name)
             isdir == node \in FsDirs
             top2 == [top EXCEPT !.rest = Tail(@), !.fresh = FALSE]
         IN [kind |-> "entry",
             stack |-> below \o <<top2>> \o (IF isdir THEN <<Frame(path, node)>> ELSE <<>>),
             reads |-> reads2,
             ent |-> [path |-> path, node |-> node, isdir |-> isdir, depth |-> Len(stack)]]

\* IntoIter::next: the root entry first (an error when the root does not
\* exist), then the contents depth first; a directory is opened when its
\* entry is produced
RawNext(root, max_depth, w, reads, tag) ==
  IF ~w.started
  THEN Bind(Resolve(root), LAMBDA node :
         IF ~Exists(node)
         THEN [kind |-> "err", w |-> [started |-> TRUE, stack |-> <<>>], reads |-> reads, ent |-> NoEnt]
         ELSE [kind |-> "entry",
               w |-> [started |-> TRUE,
                      stack |-> IF node \in FsDirs THEN <<Frame(root, node)>> ELSE <<>>],
               reads |-> reads,
               ent |-> [path |-> root, node |-> node, isdir |-> node \in FsDirs, depth |-> 0]])
  ELSE Bind(RawLoop(max_depth, w.stack, reads, tag), LAMBDA r :
         [kind |-> r.kind, w |-> [started |-> TRUE, stack |-> r.stack], reads |-> r.reads, ent |-> r.ent])

\* IntoIter::skip_current_dir
skip_current_dir(w) ==
  IF w.stack = <<>> THEN w ELSE [w EXCEPT !.stack = SubSeq(@, 1, Len(@) - 1)]

\* ------------------------------------------------------------------ glob.rs

DEFAULT_EXCLUDE_GLOBS ==
  << <<"*", "*", "/", ".", "g", "i", "t">>,
     <<"*", "*", "/", ".", "D", "S", "_", "S", "t", "o", "r", "e">>,
     <<"*", "*", "/", "t", "a", "r", "g", "e", "t">>,
     <<"*", "*", "/", "n", "o", "d", "e", "_", "m", "o", "d", "u", "l", "e", "s">> >>

TOP_MAX_DEPTH == 100

\* a base that stops at a component with "*" only
RECURSIVE BaseLoopStar(_, _)
BaseLoopStar(comps, base_path) ==
  IF comps = <<>> THEN base_path
  ELSE IF HasChar(Head(comps), "*") THEN base_path
  ELSE BaseLoopStar(Tail(comps), PathPush(base_path, Head(comps)))

longest_base_path_star_free(pattern) == SPathNew(BaseLoopStar(Components(pattern), <<>>))

RECURSIVE BaseLoop(_, _)
BaseLoop(comps, base_path) ==
  IF comps = <<>> THEN base_path
  ELSE IF HasChar(Head(comps), "*") \/ HasChar(Head(comps), "?") THEN base_path
  ELSE BaseLoop(Tail(comps), PathPush(base_path, Head(comps)))

\* longest_base_path_wild_free: the leading components without "*" or "?"
longest_base_path_wild_free(pattern) == SPathNew(BaseLoop(Components(pattern), <<>>))

\* the separators counted when only "/" is taken for one
SepCountSlashOnly(g) == Cardinality({i \in 1..Len(g) : g[i] = "/"})

\* the number of "\" and "/" characters in a pattern
SepCount(g) == Cardinality({i \in 1..Len(g) : g[i] = "\\" \/ g[i] = "/"})

RECURSIVE MaxSegs(_, _)
MaxSegs(patterns, max_depth) ==
  IF patterns = <<>> THEN max_depth
  ELSE LET depth_count == SepCount(Head(patterns)) + 1
       IN MaxSegs(Tail(patterns), IF depth_count > max_depth THEN depth_count ELSE max_depth)

\* a depth rule that knows the caller's depth and the sentinel only
get_depth_sentinel(patterns, depth) == IF depth.some THEN depth.val ELSE TOP_MAX_DEPTH

\* get_depth
get_depth(patterns, depth) ==
  IF depth.some THEN depth.val
  ELSE IF \E i \in 1..Len(patterns) : HasSub(patterns[i], <<"*", "*">>) THEN TOP_MAX_DEPTH
  ELSE Bind(MaxSegs(patterns, 0), LAMBDA m : IF m < 1 THEN 1 ELSE m)

\* ------------------------------------------------------------------ literal prefixes

\* a wildcard test that knows the star only
segment_contains_star(segment) == HasChar(segment, "*")

\* segment_contains_wildcard
segment_contains_wildcard(segment) ==
  HasChar(segment, "*") \/ HasChar(segment, "?") \/ HasChar(segment, "[")

\* expand_brace_segment: Some(options) for a segment "{a,b}", else None
expand_brace_segment(segment) ==
  IF Len(segment) >= 2 /\ segment[1] = "{" /\ segment[Len(segment)] = "}"
  THEN Bind(SubSeq(segment, 2, Len(segment) - 1), LAMBDA inner :
       Bind(SplitOn(inner, ","), LAMBDA parts :
       Bind(SelectSeq([i \in 1..Len(parts) |-> trim(parts[i])], LAMBDA o : o # <<>>), LAMBDA options :
         IF HasChar(inner, "{") \/ HasChar(inner, "}") THEN None
         ELSE IF options = <<>> THEN None
         ELSE Some(options))))
  ELSE None

\* prefix joined with a further segment
ExtendPrefix(prefix, segment) ==
  IF prefix = <<>> THEN segment ELSE join(SPathNew(prefix), segment)

RECURSIVE CrossPrefixes(_, _)
CrossPrefixes(prefixes, options) ==
  IF prefixes = <<>> THEN <<>>
  ELSE [i \in 1..Len(options) |-> ExtendPrefix(Head(prefixes), options[i])]
       \o CrossPrefixes(Tail(prefixes), options)

\* the loop of glob_literal_prefixes over the segments but the last
RECURSIVE PrefixLoop(_, _, _)
PrefixLoop(segments, i, prefixes) ==
  IF i > Len(segments) - 1 THEN prefixes
  ELSE
    Bind(segments[i], LAMBDA segment :
    Bind(expand_brace_segment(segment), LAMBDA options :
      IF segment = ParentDir \/ segment_contains_wildcard(segment) THEN prefixes
      ELSE IF ~options.some /\ (HasChar(segment, "{") \/ HasChar(segment, "}")) THEN prefixes
      ELSE Bind(CrossPrefixes(prefixes, IF options.some THEN options.val ELSE <<segment>>),
                LAMBDA next :
                  IF next = <<>> THEN prefixes ELSE PrefixLoop(segments, i + 1, next))))

\* glob_literal_prefixes
glob_literal_prefixes(pattern) ==
  Bind(trim_start_dot_slash(pattern), LAMBDA clean :
  Bind(SelectSeq(SplitOn(clean, "/"), LAMBDA x : x # <<>> /\ x # CurDir), LAMBDA segments :
    IF clean = <<>> THEN <<>>
    ELSE IF Len(segments) <= 1 THEN <<>>
    ELSE Bind(PrefixLoop(segments, 1, << <<>> >>), LAMBDA prefixes :
           IF Len(prefixes) = 1 /\ prefixes[1] = <<>> THEN <<>> ELSE prefixes)))

\* Vec::sort on strings
RECURSIVE InsertSorted(_, _)
InsertSorted(sorted, x) ==
  IF sorted = <<>> THEN <<x>>
  ELSE IF StrLess(x, Head(sorted)) THEN <<x>> \o sorted
  ELSE <<Head(sorted)>> \o InsertSorted(Tail(sorted), x)

RECURSIVE SortStrings(_)
SortStrings(v) ==
  IF v = <<>> THEN <<>> ELSE InsertSorted(SortStrings(SubSeq(v, 1, Len(v) - 1)), v[Len(v)])

\* Vec::dedup: consecutive repetitions removed
RECURSIVE Dedup(_)
Dedup(v) ==
  IF Len(v) <= 1 THEN v
  ELSE IF v[1] = v[2] THEN Dedup(Tail(v))
  ELSE <<v[1]>> \o Dedup(Tail(v))

\* prefixes left as they were collected
normalize_prefixes_skipped(prefixes) == prefixes

\* normalize_prefixes
normalize_prefixes(prefixes) ==
  IF prefixes = <<>> THEN prefixes
  ELSE IF \E i \in 1..Len(prefixes) : prefixes[i] = <<>> THEN <<>>
  ELSE Dedup(SortStrings(prefixes))

\* the prefix set of a pattern list (process_globs computes it after every
\* change of a group): empty as soon as one pattern has no literal prefix
RECURSIVE PrefixesLoop(_, _)
PrefixesLoop(patterns, new_prefixes) ==
  IF patterns = <<>> THEN normalize_prefixes(new_prefixes)
  ELSE Bind(glob_literal_prefixes(Head(patterns)), LAMBDA pfx :
         IF pfx = <<>> THEN <<>>
         ELSE PrefixesLoop(Tail(patterns), new_prefixes \o pfx))

group_prefixes(patterns) == PrefixesLoop(patterns, <<>>)

\* a prefix test that admits only the directories at or below an allowed prefix
directory_below_allowed_prefixes(path, base, prefixes) ==
  \/ path = base
  \/ Bind(diff(path, base), LAMBDA d :
        d.some /\ \E i \in 1..Len(prefixes) : starts_with(d.val, SPathNew(prefixes[i])))

\* directory_matches_allowed_prefixes
directory_matches_allowed_prefixes(path, base, prefixes) ==
  IF prefixes = <<>> THEN TRUE
  ELSE IF path = base THEN TRUE
  ELSE
    Bind(diff(path, base), LAMBDA d :
      IF ~d.some THEN TRUE
      ELSE
        Bind(d.val, LAMBDA rel_str :
        Bind(StrStartsWith(rel_str, <<".", "/">>), LAMBDA dotted :
        Bind(IF dotted THEN SPathNew(DropN(rel_str, 2)) ELSE rel_str, LAMBDA rel_path :
          IF dotted /\ DropN(rel_str, 2) = <<>> THEN TRUE
          ELSE IF ~dotted /\ rel_str = <<>> THEN TRUE
          ELSE \E i \in 1..Len(prefixes) :
                 \/ prefixes[i] = <<>>
                 \/ starts_with(rel_path, SPathNew(prefixes[i]))
                 \/ starts_with(SPathNew(prefixes[i]), rel_path)))))

\* ------------------------------------------------------------------ process_globs

GlobGroup(base, patterns, prefixes) == [base |-> base, patterns |-> patterns, prefixes |-> prefixes]

\* relative_from_absolute
relative_from_absolute(glob, group_base) ==
  Bind(diff(glob, group_base), LAMBDA d : IF d.some THEN d.val ELSE glob)

\* the caller's base as the prefix a relative pattern may repeat: "./"
\* trimmed from the start, "/" added at the end
base_str_cleaned(main_base) ==
  Bind(trim_start_dot_slash(main_base), LAMBDA t :
    IF t = <<>> THEN <<>>
    ELSE IF t[Len(t)] = "/" THEN t
    ELSE Append(t, "/"))

\* collapse_relative that only drops the leading "./"
collapse_relative_keeping_base(main_base, glob) == trim_start_dot_slash(glob)

\* a relative pattern rewritten relatively to the caller's base
collapse_relative(main_base, glob) ==
  Bind(trim_start_dot_slash(glob), LAMBDA cleaned :
  Bind(base_str_cleaned(main_base), LAMBDA b :
    IF b # <<>> /\ StrStartsWith(cleaned, b) THEN DropN(cleaned, Len(b)) ELSE cleaned))

\* index of the pre-merge group with this base, 0 if none
GroupIndex(groups, base) ==
  IF \E i \in 1..Len(groups) : groups[i].base = base
  THEN CHOOSE i \in 1..Len(groups) :
         groups[i].base = base /\ \A j \in 1..(i - 1) : groups[j].base # base
  ELSE 0

\* first loop of process_globs: absolute patterns grouped under their
\* wildcard-free base, relative patterns gathered for the caller's base
RECURSIVE CollectGlobs(_, _, _, _)
CollectGlobs(main_base, globs, groups, relative_patterns) ==
  IF globs = <<>>
  THEN (IF relative_patterns # <<>>
        THEN Append(groups, [base |-> main_base, patterns |-> relative_patterns])
        ELSE groups)
  ELSE
    Bind(Head(globs), LAMBDA glob :
    Bind(SPathNew(glob), LAMBDA path_glob :
      IF is_absolute(path_glob)
      THEN Bind(longest_base_path_wild_free(path_glob), LAMBDA abs_base :
           Bind(relative_from_absolute(path_glob, abs_base), LAMBDA rel_pattern :
           Bind(GroupIndex(groups, abs_base), LAMBDA k :
             CollectGlobs(main_base, Tail(globs),
               IF k # 0 THEN [groups EXCEPT ![k].patterns = Append(@, rel_pattern)]
               ELSE Append(groups, [base |-> abs_base, patterns |-> <<rel_pattern>>]),
               relative_patterns))))
      ELSE CollectGlobs(main_base, Tail(globs), groups,
             Append(relative_patterns, collapse_relative(main_base, glob)))))

\* groups.sort_by_key(base length): stable
RECURSIVE InsertByLen(_, _)
InsertByLen(sorted, g) ==
  IF sorted = <<>> THEN <<g>>
  ELSE IF Len(g.base) < Len(Head(sorted).base) THEN <<g>> \o sorted
  ELSE <<Head(sorted)>> \o InsertByLen(Tail(sorted), g)

\* the groups left in the order they were collected in
SortByBaseLen_skipped(groups) == groups

RECURSIVE SortByBaseLen(_)
SortByBaseLen(groups) ==
  IF groups = <<>> THEN <<>>
  ELSE InsertByLen(SortByBaseLen(SubSeq(groups, 1, Len(groups) - 1)), groups[Len(groups)])

\* patterns rewritten with the path `d` in front
PrependDiff(d, patterns) ==
  [i \in 1..Len(patterns) |-> IF d = <<>> THEN patterns[i] ELSE join(SPathNew(d), patterns[i])]

DiffOrEmpty(a, b) == Bind(diff(a, b), LAMBDA d : IF d.some THEN d.val ELSE <<>>)

\* one round of the merge pass: (base, patterns) merged into the first
\* related group of final_groups, or added as a new group
merge_group(final_groups, base, patterns) ==
  Bind({k \in 1..Len(final_groups) :
          \/ starts_with(final_groups[k].base, base)
          \/ starts_with(base, final_groups[k].base)}, LAMBDA hit :
    IF hit = {}
    THEN Append(final_groups, GlobGroup(base, patterns, group_prefixes(patterns)))
    ELSE
      Bind(CHOOSE x \in hit : \A y \in hit : x <= y, LAMBDA k :
      Bind(final_groups[k], LAMBDA existing :
      Bind(starts_with(existing.base, base), LAMBDA first_branch :
      Bind(IF first_branch
           THEN existing.patterns \o PrependDiff(DiffOrEmpty(base, existing.base), patterns)
           ELSE patterns \o PrependDiff(DiffOrEmpty(existing.base, base), existing.patterns),
           LAMBDA pats :
             [final_groups EXCEPT ![k] =
                GlobGroup(IF first_branch THEN existing.base ELSE base, pats,
                          group_prefixes(pats))])))))

RECURSIVE MergeLoop(_, _)
MergeLoop(groups, final_groups) ==
  IF groups = <<>> THEN final_groups
  ELSE MergeLoop(Tail(groups), merge_group(final_groups, Head(groups).base, Head(groups).patterns))

\* the (base, patterns) pairs before the merge pass, sorted by base length
pre_merge_groups(main_base, globs) == SortByBaseLen(CollectGlobs(main_base, globs, <<>>, <<>>))

\* process_globs
process_globs(main_base, globs) == MergeLoop(pre_merge_groups(main_base, globs), <<>>)

\* ------------------------------------------------------------------ GlobsFileIter::new

\* ListOptions { exclude_globs, relative_glob, depth }
ListOptions(exclude_globs, relative_glob, depth) ==
  [exclude_globs |-> exclude_globs, relative_glob |-> relative_glob, depth |-> depth]

IsNegated(pattern) == pattern # <<>> /\ pattern[1] = "!"

\* the include list split into the plain patterns and the negated ones, "!" removed
split_negated(globs) ==
  [includes |-> SelectSeq(globs, LAMBDA g : ~IsNegated(g)),
   excludes |-> [i \in 1..Len(SelectSeq(globs, IsNegated)) |-> Tail(SelectSeq(globs, IsNegated)[i])]]

CatchAll == <<"*", "*">>

\* file_include_patterns without the catch-all for a list of negated patterns only
file_include_patterns_no_fallback(include_globs) ==
  IF ~include_globs.some THEN [includes |-> <<CatchAll>>, excludes |-> <<>>]
  ELSE split_negated(include_globs.val)

\* GlobsFileIter::new: (include_patterns, negated_excludes)
file_include_patterns(include_globs) ==
  IF ~include_globs.some THEN [includes |-> <<CatchAll>>, excludes |-> <<>>]
  ELSE LET sp == split_negated(include_globs.val)
       IN IF sp.includes = <<>> /\ sp.excludes # <<>>
          THEN [includes |-> <<CatchAll>>, excludes |-> sp.excludes]
          ELSE sp

\* fold_negated that lets the negated patterns replace the caller's excludes
fold_negated_replacing(list_options, negated_excludes) ==
  IF negated_excludes = <<>> THEN list_options
  ELSE IF list_options.some
    THEN Some(ListOptions(Some(negated_excludes),
                          list_options.val.relative_glob, list_options.val.depth))
  ELSE Some(ListOptions(Some(negated_excludes), FALSE, None))

\* the ListOptions created or extended with the negated patterns
fold_negated(list_options, negated_excludes) ==
  IF negated_excludes = <<>> THEN list_options
  ELSE IF list_options.some
    THEN LET opts == list_options.val
         IN Some(ListOptions(
              IF opts.exclude_globs.some
              THEN Some(opts.exclude_globs.val \o negated_excludes)
              ELSE Some(negated_excludes),
              opts.relative_glob, opts.depth))
  ELSE Some(ListOptions(Some(negated_excludes), FALSE, None))

\* file_exclude_globs without the default list
file_exclude_globs_no_default(list_options) ==
  IF list_options.some /\ list_options.val.exclude_globs.some
  THEN list_options.val.exclude_globs.val
  ELSE <<>>

\* the exclude patterns in force: the options' list, else the default list
file_exclude_globs(list_options) ==
  IF list_options.some /\ list_options.val.exclude_globs.some
  THEN list_options.val.exclude_globs.val
  ELSE DEFAULT_EXCLUDE_GLOBS

\* a group walked down to the sentinel whatever its patterns and the caller say
GroupWalk_uncapped(group, max_depth) ==
  [base |-> group.base, patterns |-> group.patterns, prefixes |-> group.prefixes,
   depth |-> TOP_MAX_DEPTH,
   globset |-> get_glob_set(group.patterns)]

\* one walk per group: base, depth, compiled patterns, allowed prefixes
GroupWalk(group, max_depth) ==
  [base |-> group.base, patterns |-> group.patterns, prefixes |-> group.prefixes,
   depth |-> get_depth(group.patterns, max_depth),
   globset |-> get_glob_set(group.patterns)]

\* the first Err of the group loop of GlobsFileIter::new
RECURSIVE GroupsError(_, _)
GroupsError(groups, i) ==
  IF i > Len(groups) THEN None
  ELSE Bind(glob_cant_new(groups[i].patterns), LAMBDA e :
         IF e.some THEN e ELSE GroupsError(groups, i + 1))

\* the Err GlobsFileIter::new returns with "?": of the exclude set first, then
\* of the groups in their order
new_error(exclude_globs, groups) ==
  Bind(glob_cant_new(exclude_globs), LAMBDA e :
    IF e.some THEN e ELSE GroupsError(groups, 1))

\* GlobsFileIter::new: Err when a pattern does not compile, else the iterator
GlobsFileIter_new(dir, include_globs, list_options) ==
  Bind(SPathNew(dir), LAMBDA main_base :
  Bind(file_include_patterns(include_globs), LAMBDA sp :
  Bind(fold_negated(list_options, sp.excludes), LAMBDA options :
  Bind(process_globs(main_base, sp.includes), LAMBDA groups :
  Bind(file_exclude_globs(options), LAMBDA exclude_globs :
  Bind(IF options.some THEN options.val.depth ELSE None, LAMBDA max_depth :
  Bind(new_error(exclude_globs, groups), LAMBDA err :
    [ok |-> ~err.some,
     err |-> err,
     main_base |-> main_base,
     use_relative_glob |-> options.some /\ options.val.relative_glob,
     exclude_globs |-> exclude_globs,
     exclude_globs_set |-> get_glob_set(exclude_globs),
     max_depth |-> max_depth,
     groups |-> [i \in 1..Len(groups) |-> GroupWalk(groups[i], max_depth)]])))))))

\* the iterator state: the group being walked, its walker, the paths yielded
\* so far (the scan's HashSet) and the directories read so far
\* an iterator state whose construction has read the working directory
NewIterState_eager == [gi |-> 1, w |-> NewWalk, seen |-> {}, reads |-> <<[g |-> 1, node |-> CwdNode]>>]

NewIterState == [gi |-> 1, w |-> NewWalk, seen |-> {}, reads |-> <<>>]

\* dir_excluded that excludes no directory
dir_excluded_never(cfg, group, path) == FALSE

\* the exclude test of a directory in filter_entry
dir_excluded(cfg, group, path) ==
  IF cfg.use_relative_glob
  THEN Bind(diff(path, group.base), LAMBDA rel_path :
         rel_path.some /\ is_match(cfg.exclude_globs_set, rel_path.val))
  ELSE is_match(cfg.exclude_globs_set, path)

\* the filter_entry closure: may the walk produce, and descend into, the entry
filter_entry(cfg, group, ent) ==
  Bind(SPathNew(ent.path), LAMBDA path :
    IF ent.isdir
    THEN /\ ~dir_excluded(cfg, group, path)
         /\ \/ group.prefixes = <<>>
            \/ directory_matches_allowed_prefixes(path, group.base, group.prefixes)
    ELSE TRUE)

\* the exclude test of a file in the filter closure
file_excluded(cfg, sfile) ==
  IF cfg.use_relative_glob
  THEN Bind(diff(sfile, cfg.main_base), LAMBDA rel_path :
         rel_path.some /\ is_match(cfg.exclude_globs_set, rel_path.val))
  ELSE is_match(cfg.exclude_globs_set, sfile)

\* the filter closure on files: not excluded, and matched by the group's globset
file_filter(cfg, group, sfile) ==
  Bind(diff(sfile, group.base), LAMBDA rel_path :
    /\ ~file_excluded(cfg, sfile)
    /\ rel_path.some
    /\ is_match(group.globset, rel_path.val))

\* the scan over the chained walks: is the path new
seen_insert(seen, path) == path \notin seen

\* GlobsFileIter::next: entries are pulled from the current group's walk, and
\* from the next group's once it is exhausted, until a file passes the
\* filters and was not yielded before
RECURSIVE GlobsFileIter_next(_, _)
GlobsFileIter_next(cfg, st) ==
  IF st.gi > Len(cfg.groups) THEN [st |-> st, item |-> None]
  ELSE
    Bind(cfg.groups[st.gi], LAMBDA group :
    Bind(RawNext(group.base, Some(group.depth), st.w, st.reads, st.gi), LAMBDA r :
      IF r.kind = "none"
      THEN GlobsFileIter_next(cfg, [st EXCEPT !.gi = @ + 1, !.w = NewWalk, !.reads = r.reads])
      ELSE IF r.kind = "err" THEN GlobsFileIter_next(cfg, [st EXCEPT !.w = r.w])
      ELSE
        Bind(filter_entry(cfg, group, r.ent), LAMBDA pass :
        Bind([st EXCEPT !.w = IF ~pass /\ r.ent.isdir THEN skip_current_dir(r.w) ELSE r.w,
                        !.reads = r.reads], LAMBDA st2 :
        Bind(SPathNew(r.ent.path), LAMBDA sfile :
          IF pass /\ ~r.ent.isdir /\ file_filter(cfg, group, sfile) /\ seen_insert(st.seen, sfile)
          THEN [st |-> [st2 EXCEPT !.seen = @ \cup {sfile}], item |-> Some(sfile)]
          ELSE GlobsFileIter_next(cfg, st2))))))

\* list_files: the iterator collected
RECURSIVE CollectFiles(_, _, _)
CollectFiles(cfg, st, acc) ==
  Bind(GlobsFileIter_next(cfg, st), LAMBDA r :
    IF r.item.some THEN CollectFiles(cfg, r.st, Append(acc, r.item.val))
    ELSE [out |-> acc, reads |-> r.st.reads])

list_files(dir, include_globs, list_options) ==
  Bind(GlobsFileIter_new(dir, include_globs, list_options), LAMBDA c :
    IF c.ok THEN Some(CollectFiles(c, NewIterState, <<>>).out) ELSE None)

\* ------------------------------------------------------------------ GlobsDirIter

\* GlobsDirIter::new: (include_patterns, negated_excludes)
dir_include_patterns(include_globs) ==
  IF ~include_globs.some THEN [includes |-> <<>>, excludes |-> <<>>]
  ELSE LET sp == split_negated(include_globs.val)
       IN IF sp.includes = <<>> /\ sp.excludes # <<>>
          THEN [includes |-> <<CatchAll>>, excludes |-> sp.excludes]
          ELSE sp

\* the exclude GlobSet of GlobsDirIter: only what the options carry
dir_exclude_globs(list_options) ==
  IF list_options.some /\ list_options.val.exclude_globs.some
  THEN Some(list_options.val.exclude_globs.val)
  ELSE None

\* GlobsDirIter::new; its globs are built by Glob::new, where a "*" or a "?"
\* also matches "/"
GlobsDirIter_new(dir, include_globs, list_options) ==
  Bind(SPathNew(dir), LAMBDA base_dir :
  Bind(dir_include_patterns(include_globs), LAMBDA sp :
  Bind(fold_negated(list_options, sp.excludes), LAMBDA options :
  Bind(dir_exclude_globs(options), LAMBDA exclude_globs :
    [ok |-> GlobsCompile(sp.includes) /\ (exclude_globs.some => GlobsCompile(exclude_globs.val)),
     base_dir |-> base_dir,
     use_relative_glob |-> options.some /\ options.val.relative_glob,
     include_patterns |-> sp.includes,
     include_globset |-> IF sp.includes # <<>> THEN Some(GlobSetOf(sp.includes, FALSE)) ELSE None,
     exclude_globs |-> exclude_globs,
     exclude_globset |-> IF exclude_globs.some THEN Some(GlobSetOf(exclude_globs.val, FALSE)) ELSE None,
     depth |-> IF options.some THEN options.val.depth ELSE None]))))

\* the path a pattern of GlobsDirIter is tested on
dir_match_path(cfg, path) ==
  IF cfg.use_relative_glob THEN diff(path, cfg.base_dir) ELSE Some(path)

\* a filter closure that lets every directory pass
dir_filter_all(cfg, path) == TRUE

\* the filter closure of GlobsDirIter
dir_filter(cfg, path) ==
  Bind(dir_match_path(cfg, path), LAMBDA m :
    /\ ~(cfg.exclude_globset.some /\ m.some /\ is_match(cfg.exclude_globset.val, m.val))
    /\ (cfg.include_globset.some => (m.some /\ is_match(cfg.include_globset.val, m.val))))

\* GlobsDirIter::next
RECURSIVE GlobsDirIter_next(_, _)
GlobsDirIter_next(cfg, st) ==
  Bind(RawNext(cfg.base_dir, cfg.depth, st.w, st.reads, 1), LAMBDA r :
  Bind([st EXCEPT !.w = r.w, !.reads = r.reads], LAMBDA st2 :
  Bind(SPathNew(r.ent.path), LAMBDA path :
    IF r.kind = "none" THEN [st |-> st2, item |-> None]
    ELSE IF r.kind = "entry" /\ r.ent.isdir /\ dir_filter(cfg, path)
      THEN [st |-> st2, item |-> Some(path)]
    ELSE GlobsDirIter_next(cfg, st2))))

\* list_dirs: the iterator collected
RECURSIVE CollectDirs(_, _, _)
CollectDirs(cfg, st, acc) ==
  Bind(GlobsDirIter_next(cfg, st), LAMBDA r :
    IF r.item.some THEN CollectDirs(cfg, r.st, Append(acc, r.item.val))
    ELSE [out |-> acc, reads |-> r.st.reads])

list_dirs(dir, include_globs, list_options) ==
  Bind(GlobsDirIter_new(dir, include_globs, list_options), LAMBDA c :
    IF c.ok THEN Some(CollectDirs(c, NewIterState, <<>>).out) ELSE None)

\* ------------------------------------------------------------------ inputs

\* the largest explicit depth a caller passes
MaxDepthArg == 2

\* the directories a listing is started in: absolute, and relative to the
\* working directory
Dirs == { <<"/", "p">>, <<".", "/">> }

\* the patterns an include list is made of
G_all == <<"*", "*">>
G_star == <<"*">>
G_s_star == <<"s", "/", "*">>
G_any_f == <<"*", "*", "/", "f">>
G_abs_s == <<"/", "p", "/", "s", "/", "*", "*">>
G_abs_p == <<"/", "p", "/", "*">>
G_brace == <<"{", "s", ",", " ", "b", "}", "/", "f">>
G_not_g == <<"!", "*", "*", "/", "g">>

IncludePool == { G_all, G_star, G_s_star, G_any_f, G_abs_s, G_abs_p, G_brace, G_not_g }

\* include lists: none, one pattern, two patterns
IncludeLists ==
  {None} \cup {Some(<<a>>) : a \in IncludePool}
         \cup {Some(<<a, b>>) : a \in IncludePool, b \in IncludePool}

X_any_t == <<"*", "*", "/", "t">>
X_s_t == <<"s", "/", "t">>

ExcludeLists == { None, Some(<<X_any_t>>), Some(<<X_s_t>>) }

DepthArgs == {None} \cup {Some(d) : d \in 0..MaxDepthArg}

OptionsSet ==
  {None} \cup {Some(ListOptions(x, r, d)) : x \in ExcludeLists, r \in BOOLEAN, d \in DepthArgs}

\* ------------------------------------------------------------------ state

VARIABLES
  phase,   \* "idle", then "files" or "dirs" while an iterator is live, "done", "error"
  call,    \* the arguments of the listing call
  cfg,     \* what the constructor built
  st,      \* the iterator's state
  out      \* the items yielded so far

vars == <<phase, call, cfg, st, out>>

NoCall == [kind |-> "none", dir |-> <<>>, include_globs |-> None, list_options |-> None]
NoCfg == [ok |-> FALSE]

Init ==
  /\ phase = "idle"
  /\ call = NoCall
  /\ cfg = NoCfg
  /\ st = NewIterState
  /\ out = <<>>

\* iter_files(dir, include_globs, list_options)
NewFiles ==
  /\ phase = "idle"
  /\ \E dir \in Dirs, g \in IncludeLists, o \in OptionsSet :
       \E c \in {GlobsFileIter_new(dir, g, o)} :
          /\ call' = [kind |-> "files", dir |-> dir, include_globs |-> g, list_options |-> o]
          /\ cfg' = c
          /\ phase' = IF c.ok THEN "files" ELSE "error"
  /\ st' = NewIterState
  /\ out' = <<>>

\* one call of GlobsFileIter::next
NextFile ==
  /\ phase = "files"
  /\ \E r \in {GlobsFileIter_next(cfg, st)} :
        /\ st' = r.st
        /\ out' = IF r.item.some THEN Append(out, r.item.val) ELSE out
        /\ phase' = IF r.item.some THEN "files" ELSE "done"
  /\ UNCHANGED <<call, cfg>>

\* iter_dirs(dir, include_globs, list_options)
NewDirs ==
  /\ phase = "idle"
  /\ \E dir \in Dirs, g \in IncludeLists, o \in OptionsSet :
       \E c \in {GlobsDirIter_new(dir, g, o)} :
          /\ call' = [kind |-> "dirs", dir |-> dir, include_globs |-> g, list_options |-> o]
          /\ cfg' = c
          /\ phase' = IF c.ok THEN "dirs" ELSE "error"
  /\ st' = NewIterState
  /\ out' = <<>>

\* one call of GlobsDirIter::next
NextDir ==
  /\ phase = "dirs"
  /\ \E r \in {GlobsDirIter_next(cfg, st)} :
        /\ st' = r.st
        /\ out' = IF r.item.some THEN Append(out, r.item.val) ELSE out
        /\ phase' = IF r.item.some THEN "dirs" ELSE "done"
  /\ UNCHANGED <<call, cfg>>

Next == NewFiles \/ NextFile \/ NewDirs \/ NextDir

Spec == Init /\ [][Next]_vars

\* ------------------------------------------------------------------ reference notions

\* the absolute path string of a node
AbsPath(node) == PathCollect(<<"/">>, node)

\* node lies at or below the node `above`
IsUnder(node, above) == Len(above) <= Len(node) /\ SubSeq(node, 1, Len(above)) = above

\* the caller's arguments as the constructor reads them
CallIncludes == file_include_patterns(call.include_globs).includes
CallNegated == file_include_patterns(call.include_globs).excludes
CallExcludes ==
  IF call.list_options.some /\ call.list_options.val.exclude_globs.some
  THEN call.list_options.val.exclude_globs.val
  ELSE <<>>
CallHasExcludes == call.list_options.some /\ call.list_options.val.exclude_globs.some
CallDepth == IF call.list_options.some THEN call.list_options.val.depth ELSE None
CallRelative == call.list_options.some /\ call.list_options.val.relative_glob

FilesLive == call.kind = "files" /\ phase \in {"files", "done"}
DirsLive == call.kind = "dirs" /\ phase \in {"dirs", "done"}
FilesDone == call.kind = "files" /\ phase = "done"
DirsDone == call.kind = "dirs" /\ phase = "done"
JustBuilt == out = <<>> /\ st = NewIterState

\* how many of the yielded items are the node
YieldCount(node) == Cardinality({i \in 1..Len(out) : Resolve(out[i]) = node})

\* does a single pattern match a string, "*" stopping at "/"
PatMatch(pattern, str) == GlobIsMatch(GlobParse(pattern).toks, str, TRUE)

\* the exclude test of the listing on a path: the path relative to the caller's
\* base in relative mode, the path itself otherwise
ExcludedFromCaller(path) ==
  LET m == IF cfg.use_relative_glob THEN diff(path, cfg.main_base) ELSE Some(path)
  IN m.some /\ is_match(cfg.exclude_globs_set, m.val)

\* the paths from a root path down the names: the root, then one per name
PathsDown(root, names) == {PathCollect(root, SubSeq(names, 1, k)) : k \in 0..Len(names)}

\* the file `node` is matched by include pattern p (an absolute pattern on the
\* absolute path, a relative one on the path below the caller's base) and
\* neither it nor a directory on the way to it is excluded
IncludedBy(p, node) ==
  LET baseNode == Resolve(cfg.main_base)
      names == SubSeq(node, Len(baseNode) + 1, Len(node))
  IN IF is_absolute(p)
     THEN /\ PatMatch(p, AbsPath(node))
          /\ \A path \in PathsDown(<<"/">>, node) : ~ExcludedFromCaller(path)
     ELSE /\ IsUnder(node, baseNode)
          /\ PatMatch(p, PathCollect(<<>>, names))
          /\ \A path \in PathsDown(cfg.main_base, names) : ~ExcludedFromCaller(path)

ShouldBeListed(node) == \E i \in 1..Len(CallIncludes) : IncludedBy(CallIncludes[i], node)

\* C1: completeness of the file listing.  Once the iterator is exhausted, every
\* regular file that an include pattern matches and that no exclude pattern
\* cuts off was yielded exactly once (calls without an explicit depth).
C1_Completeness ==
  (FilesDone /\ ~CallDepth.some) =>
     \A node \in FsFiles : ShouldBeListed(node) => YieldCount(node) = 1

\* the files one group's walk yields on its own, with the prefix set given
GroupFiles(i, prefixes) ==
  LET one == [cfg EXCEPT !.groups = <<[cfg.groups[i] EXCEPT !.prefixes = prefixes]>>]
      r == CollectFiles(one, NewIterState, <<>>).out
  IN {r[k] : k \in 1..Len(r)}

\* C2: pruning loses nothing.  For every group, the walk pruned by the group's
\* literal prefixes yields the same files as the walk of the same group with
\* no prefix (no pruning).
C2_PruningLosesNothing ==
  (FilesLive /\ JustBuilt) =>
     \A i \in 1..Len(cfg.groups) : GroupFiles(i, cfg.groups[i].prefixes) = GroupFiles(i, <<>>)

\* the directories from a group's base down to (not including) a path of its walk
DirsAbove(group, path) ==
  LET d == diff(path, group.base)
      names == Components(d.val)
  IN {PathCollect(group.base, SubSeq(names, 1, k)) : k \in 0..(Len(names) - 1)}

\* the exclude test of the walk on a directory of a group: the path relative
\* to the walk's base in relative mode, the walked path otherwise
DirExcludedInWalk(group, path) ==
  LET m == IF cfg.use_relative_glob THEN diff(path, group.base) ELSE Some(path)
  IN m.some /\ is_match(cfg.exclude_globs_set, m.val)

\* item i satisfies the include/exclude contract of group g
SoundFor(g, path) ==
  LET d == diff(path, g.base)
  IN /\ d.some
     /\ IsUnder(Resolve(path), Resolve(g.base))
     /\ \E k \in 1..Len(g.patterns) : PatMatch(g.patterns[k], d.val)
     /\ ~ExcludedFromCaller(path)
     /\ \A dir \in DirsAbove(g, path) : ~DirExcludedInWalk(g, dir)

ParentRead(node) ==
  \E r \in 1..Len(st.reads) : st.reads[r].node = SubSeq(node, 1, Len(node) - 1)

\* some include pattern matches the file below the caller's base
PatternWants(node) ==
  LET baseNode == Resolve(cfg.main_base)
  IN /\ IsUnder(node, baseNode)
     /\ \E i \in 1..Len(CallIncludes) :
           PatMatch(CallIncludes[i], PathCollect(<<>>, SubSeq(node, Len(baseNode) + 1, Len(node))))

C4_NoFileTwice ==
  FilesLive => \A i, j \in 1..Len(out) : i # j => Resolve(out[i]) # Resolve(out[j])

\* C5: merging.  Every (base, patterns) pair that process_globs starts from
\* ends in a group whose base is that base or an ancestor of it, with its
\* patterns rewritten by the path from the group's base down to the pair's base.
C5_MergeKeepsAncestor ==
  FilesLive =>
     LET pre == pre_merge_groups(cfg.main_base, CallIncludes)
     IN \A i \in 1..Len(pre) :
          \E g \in 1..Len(cfg.groups) :
             /\ starts_with(pre[i].base, cfg.groups[g].base)
             /\ \A k \in 1..Len(pre[i].patterns) :
                  \E m \in 1..Len(cfg.groups[g].patterns) :
                     cfg.groups[g].patterns[m] =
                       PrependDiff(DiffOrEmpty(pre[i].base, cfg.groups[g].base), pre[i].patterns)[k]

\* C6: one walk per subtree.  No group's base is equal to or an ancestor of
\* another group's base, and no directory is read by the walks of two groups.
C6_NoSubtreeTwice ==
  FilesLive =>
     /\ \A i, j \in 1..Len(cfg.groups) :
          i # j => ~starts_with(cfg.groups[j].base, cfg.groups[i].base)
     /\ \A a, b \in 1..Len(st.reads) :
          st.reads[a].node = st.reads[b].node => st.reads[a].g = st.reads[b].g

\* the half of C6 about the bases alone: no base is a component-wise prefix of
\* another group's base
GroupBasesUnrelated ==
  FilesLive =>
     \A i, j \in 1..Len(cfg.groups) :
        i # j => ~starts_with(cfg.groups[j].base, cfg.groups[i].base)

\* an include list of negated patterns only, and what it stands for: the
\* catch-all include with the negated patterns after the caller's excludes
OnlyNegated ==
  /\ call.include_globs.some
  /\ Len(call.include_globs.val) > 0
  /\ \A i \in 1..Len(call.include_globs.val) : IsNegated(call.include_globs.val[i])

NegatedOf(globs) == split_negated(globs).excludes

FallbackOptions ==
  Some(ListOptions(Some(CallExcludes \o NegatedOf(call.include_globs.val)), CallRelative, CallDepth))

\* the path an exclude pattern of the directory listing is tried on
DirListingTestPath(path) ==
  IF cfg.use_relative_glob THEN diff(path, cfg.base_dir) ELSE Some(path)

C8_Folding ==
  (FilesLive /\ Len(CallNegated) > 0 /\ call.list_options.some) =>
     /\ cfg.exclude_globs = CallExcludes \o CallNegated
     /\ cfg.use_relative_glob = call.list_options.val.relative_glob
     /\ cfg.max_depth = call.list_options.val.depth
     /\ \A i \in 1..Len(out) : \A k \in 1..Len(CallExcludes \o CallNegated) :
           LET m == IF CallRelative THEN diff(out[i], cfg.main_base) ELSE Some(out[i])
           IN ~(m.some /\ PatMatch((CallExcludes \o CallNegated)[k], m.val))

\* negated patterns folded behind caller excludes, with a depth and relative
\* mode: a finished listing that yielded a file and kept back a file of a
\* directory it read, one that a negated pattern matches
C8_Witness ==
  /\ FilesDone
  /\ Len(CallNegated) > 0
  /\ Len(CallExcludes) > 0
  /\ CallRelative
  /\ CallDepth.some
  /\ Len(out) > 0
  /\ \E node \in FsFiles : \E k \in 1..Len(CallNegated) :
        PatMatch(CallNegated[k], AbsPath(node)) /\ YieldCount(node) = 0 /\ ParentRead(node)

\* a yielded path lies at or below a directory that a default exclude matches
UnderDefaultExcluded(path) ==
  \E k \in 1..Len(path) :
     (k = Len(path) \/ path[k + 1] = "/")
       /\ is_match(get_glob_set(DEFAULT_EXCLUDE_GLOBS), SubSeq(path, 1, k))

\* C9 as stated: whenever the caller supplies no exclude_globs, the default
\* exclude set is the exclude set in force, for the file listing and the
\* directory listing and for every include list.
C9_DefaultsAlways ==
  ((FilesLive \/ DirsLive) /\ ~CallHasExcludes) =>
     /\ cfg.exclude_globs = DEFAULT_EXCLUDE_GLOBS
     /\ \A i \in 1..Len(out) : ~UnderDefaultExcluded(out[i])

\* C9 amended: when the caller supplies no exclude_globs, the file listing uses
\* the default exclude set if the include list has no negated pattern and the
\* negated patterns alone if it has some; the directory listing has no default
\* exclude set: without negated patterns it excludes nothing.
C9_DefaultsWhenNothingNegated ==
  /\ (FilesLive /\ ~CallHasExcludes /\ Len(CallNegated) = 0) =>
        /\ cfg.exclude_globs = DEFAULT_EXCLUDE_GLOBS
        /\ \A i \in 1..Len(out) : ~UnderDefaultExcluded(out[i])
  /\ (FilesLive /\ ~CallHasExcludes /\ Len(CallNegated) > 0) =>
        cfg.exclude_globs = CallNegated
  /\ (DirsLive /\ ~CallHasExcludes /\ Len(CallNegated) = 0) =>
        cfg.exclude_globset = None

\* a finished file listing under the default exclude set that went past the
\* excluded .git directory
C9_Witness ==
  /\ FilesDone
  /\ ~CallHasExcludes
  /\ Len(CallNegated) = 0
  /\ cfg.exclude_globs = DEFAULT_EXCLUDE_GLOBS
  /\ Len(out) > 0
  /\ PatternWants(<<N_p, N_git, N_c>>)
  /\ YieldCount(<<N_p, N_git, N_c>>) = 0
  /\ ParentRead(<<N_p, N_git>>)

\* C10: with relative_glob the exclude patterns are tried on paths relative to
\* the caller's base in every group: no directory a group's walk descended
\* into, and no yielded file, has a path relative to the caller's base that
\* matches the exclude set.
C10_ExcludesRelativeToCallerBase ==
  (FilesLive /\ cfg.use_relative_glob) =>
     /\ \A i \in 1..Len(out) : ~ExcludedFromCaller(out[i])
     /\ \A r \in 1..Len(st.reads) :
          LET g == cfg.groups[st.reads[r].g]
              below == SubSeq(st.reads[r].node, Len(Resolve(g.base)) + 1, Len(st.reads[r].node))
          IN ~ExcludedFromCaller(PathCollect(g.base, below))

\* ------------------------------------------------------------------ relative bases

\* the sub directory s of the working directory, as a caller may write it
RelBaseName == <<"s">>
RelDirs == { <<"s">>, <<".", "/", "s">>, <<"s", "/">>, <<".", "/", "s", "/">> }

\* patterns meant relative to that directory
R_f == <<"f">>
R_t_f == <<"t", "/", "f">>
R_t_star == <<"t", "/", "*">>
R_s_f == <<"s", "/", "f">>
R_fg == <<"{", "f", ",", "g", "}">>
RelPatterns == { G_star, G_all, G_any_f, R_f, R_t_f, R_t_star, R_s_f, R_fg }

\* the three ways to write pattern p for the base: p, B/p, ./B/p
RelForms(p) ==
  { p, RelBaseName \o <<"/">> \o p, <<".", "/">> \o RelBaseName \o <<"/">> \o p }

RelativeMode == Some(ListOptions(None, TRUE, None))

\* iter_files on a relative base, with one relative pattern in one of its forms
NewRelFiles ==
  /\ phase = "idle"
  /\ \E dir \in RelDirs, p \in RelPatterns, o \in {None, RelativeMode} :
       \E g \in RelForms(p) :
          \E c \in {GlobsFileIter_new(dir, Some(<<g>>), o)} :
             /\ call' = [kind |-> "files", dir |-> dir, include_globs |-> Some(<<g>>), list_options |-> o]
             /\ cfg' = c
             /\ phase' = IF c.ok THEN "files" ELSE "error"
  /\ st' = NewIterState
  /\ out' = <<>>

NextRel == NewRelFiles \/ NextFile

SpecRel == Init /\ [][NextRel]_vars

\* the include list of the call is pattern p in one of its three forms
CallIsFormOf(p) == \E g \in RelForms(p) : call.include_globs = Some(<<g>>)

\* the call was grouped as pattern p under the caller's base, and once the
\* listing is finished it yielded what pattern p yields in relative mode
GroupedAs(p) ==
  /\ Len(cfg.groups) = 1
  /\ cfg.groups[1].base = SPathNew(call.dir)
  /\ cfg.groups[1].patterns = <<p>>
  /\ phase = "done" => Some(out) = list_files(call.dir, Some(<<p>>), RelativeMode)

D_empty == <<>>
D_a == <<"a">>
D_a_b == <<"a", "/", "b">>
D_win == <<"a", "\\", "b", "/", "*">>
D_deep == [i \in 1..TOP_MAX_DEPTH |-> "/"]
DepthPatterns == { D_empty, D_a, D_a_b, D_win, D_deep, G_star, G_all, G_any_f }
DepthPatternLists ==
  {<<>>} \cup {<<a>> : a \in DepthPatterns} \cup {<<a, b>> : a, b \in DepthPatterns}

\* a call of get_depth
GetDepthCall ==
  /\ phase = "idle"
  /\ \E patterns \in DepthPatternLists, depth \in DepthArgs :
        /\ call' = [kind |-> "get_depth", patterns |-> patterns, depth |-> depth]
        /\ out' = get_depth(patterns, depth)
  /\ phase' = "returned"
  /\ UNCHANGED <<cfg, st>>

NextDepth == GetDepthCall

SpecDepth == Init /\ [][NextDepth]_vars

DepthReturned == phase = "returned" /\ call.kind = "get_depth"

\* the number of "/" and "\" characters of a pattern, plus one
Levels(g) == Len(SelectSeq(g, LAMBDA c : c \in {"/", "\\"})) + 1

PatternLevels == {Levels(call.patterns[i]) : i \in 1..Len(call.patterns)}

HasDoubleStar == \E i \in 1..Len(call.patterns) : HasSub(call.patterns[i], <<"*", "*">>)

\* C12: get_depth returns d for Some(d); with None it returns 100 when a
\* pattern contains "**", else the greatest (separator count + 1) of the
\* patterns, 1 for no pattern; with None the result lies between 1 and
\* max(100, greatest separator count + 1).
C12_GetDepth ==
  DepthReturned =>
     /\ call.depth.some => out = call.depth.val
     /\ ~call.depth.some =>
          /\ HasDoubleStar => out = 100
          /\ ~HasDoubleStar /\ call.patterns # <<>> =>
                (out \in PatternLevels /\ \A l \in PatternLevels : l <= out)
          /\ call.patterns = <<>> => out = 1
          /\ 1 <= out
          /\ \A bound \in PatternLevels \cup {100} :
                (\A l \in PatternLevels \cup {100} : l <= bound) => out <= bound

\* get_depth returned the levels of a pattern written with "\" and "/"
C12_Witness ==
  /\ DepthReturned
  /\ call.patterns = <<D_a, D_win>>
  /\ call.depth = None
  /\ out = 3

\* get_depth returned more than 100 for a pattern without "**"
C12_WitnessDeep ==
  /\ DepthReturned
  /\ call.patterns = <<D_deep>>
  /\ call.depth = None
  /\ out = 101

\* ------------------------------------------------------------------ sort_by_globs

\* usize::MAX, the rank of a path no glob matches: the greatest index there
\* is, here the greatest integer of the model
usize_MAX == 2147483647

\* match_index_for_path that always takes the first matching glob
RECURSIVE FirstMatch(_, _, _)
FirstMatch(path, matchers, i) ==
  IF i > Len(matchers) THEN usize_MAX
  ELSE IF GlobIsMatch(matchers[i], path, FALSE) THEN i - 1
  ELSE FirstMatch(path, matchers, i + 1)

match_index_first_only(path, matchers, end_weighted) == FirstMatch(path, matchers, 1)

\* the end_weighted loop: found is overwritten by every matching glob
RECURSIVE LastMatch(_, _, _, _)
LastMatch(path, matchers, i, found) ==
  IF i > Len(matchers) THEN (IF found.some THEN found.val ELSE usize_MAX)
  ELSE LastMatch(path, matchers, i + 1,
                 IF GlobIsMatch(matchers[i], path, FALSE) THEN Some(i - 1) ELSE found)

\* match_index_for_path; Glob::new leaves literal_separator off
match_index_for_path(path, matchers, end_weighted) ==
  IF matchers = <<>> THEN usize_MAX
  ELSE IF end_weighted THEN LastMatch(path, matchers, 1, None)
  ELSE FirstMatch(path, matchers, 1)

\* the closure given to sort_by: is a ordered strictly before b
SortLess(a, b, matchers, end_weighted) ==
  Bind(match_index_for_path(a, matchers, end_weighted), LAMBDA ai :
  Bind(match_index_for_path(b, matchers, end_weighted), LAMBDA bi :
    IF ai = bi THEN StrLess(a, b) ELSE ai < bi))

\* slice::sort_by, a stable sort
RECURSIVE SortInsert(_, _, _, _)
SortInsert(sorted, x, matchers, end_weighted) ==
  IF sorted = <<>> THEN <<x>>
  ELSE IF SortLess(x, Head(sorted), matchers, end_weighted) THEN <<x>> \o sorted
  ELSE <<Head(sorted)>> \o SortInsert(Tail(sorted), x, matchers, end_weighted)

RECURSIVE SortBy(_, _, _)
SortBy(items, matchers, end_weighted) ==
  IF items = <<>> THEN <<>>
  ELSE SortInsert(SortBy(SubSeq(items, 1, Len(items) - 1), matchers, end_weighted),
                  items[Len(items)], matchers, end_weighted)

\* sort_by_globs: None stands for Err(Error::sort_by_globs)
sort_by_globs(items, globs, end_weighted) ==
  IF ~GlobsCompile(globs) THEN None
  ELSE Some(SortBy(items, [i \in 1..Len(globs) |-> GlobParse(globs[i]).toks], end_weighted))

\* the longest item list given to sort_by_globs
MaxItems == 3

P_lib == <<"l", "i", "b">>
P_src_a == <<"s", "r", "c", "/", "a">>
P_src_list_b == <<"s", "r", "c", "/", "l", "i", "s", "t", "/", "b">>
P_src_list_mod == <<"s", "r", "c", "/", "l", "i", "s", "t", "/", "m", "o", "d">>
SortPaths == { P_lib, P_src_a, P_src_list_b, P_src_list_mod }
SortItems == UNION {[1..k -> SortPaths] : k \in 0..MaxItems}

S_src == <<"s", "r", "c", "/", "*", "*">>
S_src_list == <<"s", "r", "c", "/", "l", "i", "s", "t", "/", "*", "*">>
S_src_star == <<"s", "r", "c", "/", "*">>
S_bad == <<"[">>
SortGlobs == { S_src, S_src_list, S_src_star, P_src_list_mod, S_bad }
SortGlobLists == {<<>>} \cup {<<a>> : a \in SortGlobs} \cup {<<a, b>> : a, b \in SortGlobs}

\* a call of sort_by_globs
SortCall ==
  /\ phase = "idle"
  /\ \E items \in SortItems, globs \in SortGlobLists, end_weighted \in BOOLEAN :
        /\ call' = [kind |-> "sort_by_globs", items |-> items, globs |-> globs,
                    end_weighted |-> end_weighted]
        /\ out' = sort_by_globs(items, globs, end_weighted)
  /\ phase' = "returned"
  /\ UNCHANGED <<cfg, st>>

NextSort == SortCall

SpecSort == Init /\ [][NextSort]_vars

SortReturned == phase = "returned" /\ call.kind = "sort_by_globs" /\ out.some

\* the indices (from 0) of the globs of the call that match the path
MatchingGlobs(path) ==
  {i - 1 : i \in {j \in 1..Len(call.globs) :
                     GlobIsMatch(GlobParse(call.globs[j]).toks, path, FALSE)}}

\* the rank of the claim: first matching index, last when end_weighted, the
\* sentinel when there is none
Rank(path) ==
  Bind(MatchingGlobs(path), LAMBDA m :
    IF m = {} THEN usize_MAX
    ELSE IF call.end_weighted THEN CHOOSE i \in m : \A j \in m : j <= i
    ELSE CHOOSE i \in m : \A j \in m : i <= j)

Occurrences(v, x) == Cardinality({i \in 1..Len(v) : v[i] = x})

\* C13: sort_by_globs returns a permutation of items in ascending order of
\* (rank, path), the rank being the index of the first matching glob, of the
\* last one when end_weighted, and usize::MAX when no glob matches.
C13_SortByGlobs ==
  SortReturned =>
     /\ Len(out.val) = Len(call.items)
     /\ \A x \in SortPaths : Occurrences(out.val, x) = Occurrences(call.items, x)
     /\ \A i, j \in 1..Len(out.val) :
           i < j =>
              \/ Rank(out.val[i]) < Rank(out.val[j])
              \/ /\ Rank(out.val[i]) = Rank(out.val[j])
                 /\ (out.val[i] = out.val[j] \/ StrLess(out.val[i], out.val[j]))

\* an end weighted sort where the last matching glob decides, with a path
\* that no glob matches coming last
C13_Witness ==
  /\ SortReturned
  /\ call.end_weighted
  /\ call.globs = <<S_src_list, S_src>>
  /\ call.items = <<P_lib, P_src_list_mod, P_src_a>>
  /\ out.val = <<P_src_a, P_src_list_mod, P_lib>>

\* ------------------------------------------------------------------ pattern errors

\* patterns that do not compile: an unclosed class, an unclosed brace; the
\* same below an absolute base, behind "./", and negated.  B_abs_lit has no
\* wildcard component, so that it is its own base and is rewritten as ""
B_class == <<"[">>
B_brace == <<"{", "f">>
B_abs_class == <<"/", "p", "/", "*", "/", "[">>
B_abs_lit == <<"/", "p", "/", "s", "/", "[">>
B_rel_class == <<".", "/", "s", "/", "[">>
B_not_class == <<"!", "[">>
ErrIncludePool ==
  { G_star, G_s_star, G_abs_p, B_class, B_brace, B_abs_class, B_abs_lit, B_rel_class, B_not_class }
ErrIncludeLists ==
  {None} \cup {Some(<<a>>) : a \in ErrIncludePool}
         \cup {Some(<<a, b>>) : a, b \in ErrIncludePool}
ErrOptionsSet ==
  {None} \cup {Some(ListOptions(Some(x), FALSE, None)) : x \in {<<X_s_t>>, <<B_class>>, <<X_s_t, B_brace>>}}

\* iter_files with patterns that may not compile
NewFilesChecked ==
  /\ phase = "idle"
  /\ \E dir \in Dirs, g \in ErrIncludeLists, o \in ErrOptionsSet :
       \E c \in {GlobsFileIter_new(dir, g, o)} :
          /\ call' = [kind |-> "files", dir |-> dir, include_globs |-> g, list_options |-> o]
          /\ cfg' = c
          /\ phase' = IF c.ok THEN "files" ELSE "error"
  /\ st' = NewIterState
  /\ out' = <<>>

NextChecked == NewFilesChecked \/ NextFile

SpecChecked == Init /\ [][NextChecked]_vars

\* the include patterns of the call as rewritten per group
RewrittenIncludes ==
  Bind(process_globs(SPathNew(call.dir), CallIncludes), LAMBDA groups :
    UNION {{groups[i].patterns[k] : k \in 1..Len(groups[i].patterns)} : i \in 1..Len(groups)})

\* the exclude patterns of the call: the caller's and the negated ones
EffectiveExcludes ==
  {CallExcludes[i] : i \in 1..Len(CallExcludes)} \cup {CallNegated[i] : i \in 1..Len(CallNegated)}

NotCompiling == {g \in RewrittenIncludes \cup EffectiveExcludes : ~GlobParse(g).ok}

\* C14: when a rewritten include pattern or an exclude pattern does not
\* compile, GlobsFileIter::new returns an error that carries such a pattern,
\* and no directory has been read.
C14_EagerPatternError ==
  (call.kind = "files" /\ NotCompiling # {}) =>
     /\ phase = "error"
     /\ cfg.err.some /\ cfg.err.val \in NotCompiling
     /\ st.reads = <<>>
     /\ out = <<>>

\* new returned the error of a pattern rewritten below its absolute base
C14_Witness ==
  /\ phase = "error"
  /\ call.include_globs = Some(<<G_star, B_abs_class>>)
  /\ call.list_options = None
  /\ cfg.err = Some(<<"*", "/", "[">>)
  /\ st.reads = <<>>

\* ------------------------------------------------------------------ group ordering

\* the complete walk of group i alone: the files it yields and the
\* directories it reads
GroupRun(i) == CollectFiles([cfg EXCEPT !.groups = <<cfg.groups[i]>>], NewIterState, <<>>)

\* the directories read so far for group i
ReadsOfGroup(i) ==
  Bind(SelectSeq(st.reads, LAMBDA r : r.g = i), LAMBDA rs : [k \in 1..Len(rs) |-> rs[k].node])

RunNodes(run) == [k \in 1..Len(run.reads) |-> run.reads[k].node]

\* the group a yielded file comes from: the first one whose walk yields it
GroupOfFile(runs, f) ==
  CHOOSE i \in 1..Len(runs) :
     /\ \E k \in 1..Len(runs[i].out) : runs[i].out[k] = f
     /\ \A j \in 1..(i - 1) : \A k \in 1..Len(runs[j].out) : runs[j].out[k] # f

GroupsInOrder(runs) ==
  /\ \A i, j \in 1..Len(cfg.groups) :
        i < j => Len(cfg.groups[i].base) <= Len(cfg.groups[j].base)
  /\ \A k, l \in 1..Len(out) :
        k < l => GroupOfFile(runs, out[k]) <= GroupOfFile(runs, out[l])
  /\ \A k, l \in 1..Len(st.reads) : k < l => st.reads[k].g <= st.reads[l].g
  /\ \A k \in 1..Len(st.reads) :
        \A i \in 1..(st.reads[k].g - 1) : ReadsOfGroup(i) = RunNodes(runs[i])

StandsBehind(w, file) ==
  Bind(Resolve(file), LAMBDA node :
    /\ w.stack # <<>>
    /\ Bind(w.stack[Len(w.stack)], LAMBDA top :
         /\ top.node = SubSeq(node, 1, Len(node) - 1)
         /\ \E k \in 1..Len(ReadDir(top.node)) :
               /\ ReadDir(top.node)[k] = node[Len(node)]
               /\ top.rest = SubSeq(ReadDir(top.node), k + 1, Len(ReadDir(top.node)))))

\* the step is a call of next() on the file iterator
IsNextFileCall == phase = "files" /\ call.kind = "files" /\ call' = call /\ cfg' = cfg

\* C16: constructing GlobsFileIter reads no directory; the read log grows
\* only in a step that is a next() call; a next() call that returns an item
\* leaves the walker right behind that item, having read nothing further.
\* (A step that is no call leaves all variables, the read log too, unchanged.)
C16_PullBased ==
  [][/\ (phase = "idle" /\ call'.kind = "files") => st'.reads = <<>>
     /\ (call'.kind = "files" /\ st'.reads # st.reads) =>
           /\ IsNextFileCall
           /\ Len(st'.reads) > Len(st.reads)
           /\ SubSeq(st'.reads, 1, Len(st.reads)) = st.reads
     /\ (IsNextFileCall /\ out' # out) =>
           /\ Len(out') = Len(out) + 1
           /\ StandsBehind(st'.w, out'[Len(out')])]_vars

\* a listing that has yielded its first file after reading one directory,
\* with more directories left to read
C16_Witness ==
  /\ FilesLive /\ phase = "files"
  /\ Len(out) = 1
  /\ Len(st.reads) = 1
  /\ Len(CollectFiles(cfg, NewIterState, <<>>).reads) > 2

\* ------------------------------------------------------------------ collapser

IsNormal(c) == c # RootDir /\ c # CurDir /\ c # ParentDir

\* is_collapsed, from component i on
RECURSIVE IsCollapsedLoop(_, _, _, _)
IsCollapsedLoop(comps, i, abs, previous_was_normal) ==
  IF i > Len(comps) THEN TRUE
  ELSE IF comps[i] = RootDir THEN IsCollapsedLoop(comps, i + 1, TRUE, previous_was_normal)
  ELSE IF comps[i] = CurDir
    THEN IF previous_was_normal \/ abs \/ i < Len(comps) THEN FALSE
         ELSE IsCollapsedLoop(comps, i + 1, abs, previous_was_normal)
  ELSE IF comps[i] = ParentDir
    THEN IF abs \/ previous_was_normal THEN FALSE
         ELSE IsCollapsedLoop(comps, i + 1, abs, previous_was_normal)
  ELSE IsCollapsedLoop(comps, i + 1, abs, TRUE)

is_collapsed(path) == IsCollapsedLoop(Components(path), 1, FALSE, FALSE)

AnyNormal(components) == \E k \in 1..Len(components) : IsNormal(components[k])

\* the component loop of into_collapsed
RECURSIVE CollapseLoop(_, _, _, _)
CollapseLoop(comps, i, components, normal_seen) ==
  IF i > Len(comps) THEN components
  ELSE IF comps[i] = RootDir
    THEN CollapseLoop(comps, i + 1, Append(components, RootDir), FALSE)
  ELSE IF comps[i] = CurDir
    THEN CollapseLoop(comps, i + 1,
                      IF components = <<>> THEN <<CurDir>> ELSE components, normal_seen)
  ELSE IF comps[i] = ParentDir
    THEN IF normal_seen /\ components # <<>> /\ IsNormal(components[Len(components)])
         THEN Bind(SubSeq(components, 1, Len(components) - 1), LAMBDA popped :
                CollapseLoop(comps, i + 1, popped, AnyNormal(popped)))
         ELSE IF normal_seen /\ components # <<>> /\ components[Len(components)] = RootDir
         THEN CollapseLoop(comps, i + 1, components, normal_seen)
         ELSE CollapseLoop(comps, i + 1, Append(components, ParentDir), normal_seen)
  ELSE CollapseLoop(comps, i + 1, Append(components, comps[i]), TRUE)

\* the path of the collapsed components: "." or "" when nothing is left
Reconstruct(path, components) ==
  IF components = <<>>
  THEN (IF StrStartsWith(path, <<".", "/">>) THEN CurDir ELSE <<>>)
  ELSE PathCollect(<<>>, components)

\* into_collapsed
into_collapsed(path) ==
  IF path = <<>> THEN path
  ELSE IF is_collapsed(path) THEN path
  ELSE Reconstruct(path, CollapseLoop(Components(path), 1, <<>>, FALSE))

\* contains_problematic_components
contains_problematic_components(path) ==
  Bind(Components(path), LAMBDA comps :
    \/ \E k \in 1..Len(comps) : comps[k] = RootDir
    \/ \E k \in 1..Len(comps) :
          comps[k] = ParentDir /\ \E j \in 1..(k - 1) : IsNormal(comps[j]))

\* the component loop of try_into_collapsed: None at a root, else the
\* components kept and the count of ".." met while no normal one was held
RECURSIVE TryCollapseLoop(_, _, _, _, _)
TryCollapseLoop(comps, i, components, normal_seen, parent_count) ==
  IF i > Len(comps) THEN Some([components |-> components, parent_count |-> parent_count])
  ELSE IF comps[i] = RootDir THEN None
  ELSE IF comps[i] = CurDir
    THEN TryCollapseLoop(comps, i + 1,
                         IF components = <<>> THEN <<CurDir>> ELSE components,
                         normal_seen, parent_count)
  ELSE IF comps[i] = ParentDir
    THEN IF normal_seen
         THEN IF components # <<>> /\ IsNormal(components[Len(components)])
              THEN Bind(SubSeq(components, 1, Len(components) - 1), LAMBDA popped :
                     TryCollapseLoop(comps, i + 1, popped, AnyNormal(popped), parent_count))
              ELSE TryCollapseLoop(comps, i + 1, Append(components, ParentDir),
                                   normal_seen, parent_count)
         ELSE TryCollapseLoop(comps, i + 1, Append(components, ParentDir),
                              normal_seen, parent_count + 1)
  ELSE TryCollapseLoop(comps, i + 1, Append(components, comps[i]), TRUE, parent_count)

NormalCount(components) == Cardinality({k \in 1..Len(components) : IsNormal(components[k])})

\* try_into_collapsed
try_into_collapsed(path) ==
  IF is_collapsed(path) /\ ~contains_problematic_components(path) THEN Some(path)
  ELSE Bind(TryCollapseLoop(Components(path), 1, <<>>, FALSE, 0), LAMBDA r :
         IF ~r.some THEN None
         ELSE IF r.val.parent_count > 0 /\ NormalCount(r.val.components) < r.val.parent_count
         THEN None
         ELSE Some(Reconstruct(path, r.val.components)))

\* SPath::collapse
collapse(s) == SPathNew(into_collapsed(s))

\* the most segments of a path given to the collapser, and of a path given
\* to diff
MaxPathLen == 4
MaxDiffLen == 3

RECURSIVE JoinSegs(_)
JoinSegs(segs) ==
  IF segs = <<>> THEN <<>>
  ELSE IF Len(segs) = 1 THEN segs[1]
  ELSE segs[1] \o <<"/">> \o JoinSegs(Tail(segs))

\* the paths given to the collapser: up to MaxPathLen segments, rooted or not
CollapseSegs == { <<"a">>, <<"c">>, ParentDir, CurDir }
CollapsePaths ==
  UNION {{pre \o JoinSegs(segs) : segs \in [1..k -> CollapseSegs], pre \in {<<>>, <<"/">>}} :
           k \in 0..MaxPathLen}

\* the SPath values given to diff: rooted, relative, and relative behind "./"
DiffSegs == { <<"a">>, <<"c">>, ParentDir }
DiffPaths ==
  UNION {{SPathNew(pre \o JoinSegs(segs)) :
             segs \in [1..k -> DiffSegs], pre \in {<<>>, <<"/">>, <<".", "/">>}} :
           k \in 0..MaxDiffLen}

\* a call of into_collapsed
IntoCollapsedCall ==
  /\ phase = "idle"
  /\ \E path \in CollapsePaths :
        /\ call' = [kind |-> "into_collapsed", path |-> path]
        /\ out' = into_collapsed(path)
  /\ phase' = "returned"
  /\ UNCHANGED <<cfg, st>>

\* a call of try_into_collapsed
TryIntoCollapsedCall ==
  /\ phase = "idle"
  /\ \E path \in CollapsePaths :
        /\ call' = [kind |-> "try_into_collapsed", path |-> path]
        /\ out' = try_into_collapsed(path)
  /\ phase' = "returned"
  /\ UNCHANGED <<cfg, st>>

\* test_spath_spath_diff: f.diff(b), then b.join(d).collapse()
DiffJoinCall ==
  /\ phase = "idle"
  /\ \E b \in DiffPaths, f \in DiffPaths :
       \E d \in {diff(f, b)} :
          /\ call' = [kind |-> "diff", base |-> b, path |-> f]
          /\ out' = [diff |-> d,
                     rejoined |-> IF d.some THEN Some(collapse(join(b, d.val))) ELSE None]
  /\ phase' = "returned"
  /\ UNCHANGED <<cfg, st>>

NextPath == IntoCollapsedCall \/ TryIntoCollapsedCall \/ DiffJoinCall

SpecPath == Init /\ [][NextPath]_vars

DiffReturned == phase = "returned" /\ call.kind = "diff" /\ out.diff.some

\* C17 as stated: whenever f.diff(b) is Some(d), b.join(d).collapse() is f.
C17_RoundTripAlways ==
  DiffReturned => out.rejoined = Some(call.path)

HasParentDir(p) == \E k \in 1..Len(Components(p)) : Components(p)[k] = ParentDir
LeadsWithCurDir(p) == Components(p) # <<>> /\ Components(p)[1] = CurDir
EndsWithSeparator(p) == p # <<>> /\ p[Len(p)] = "/"

\* f is collapsed and written without a trailing separator, differs from b,
\* and either f is absolute and b relative, or b has no ".." and the two are
\* of one kind: both absolute, both relative behind "./", or both plain
RoundTripCase(f, b) ==
  /\ collapse(f) = f
  /\ ~EndsWithSeparator(f)
  /\ Components(f) # Components(b)
  /\ \/ is_absolute(f) /\ ~is_absolute(b)
     \/ /\ ~HasParentDir(b)
        /\ is_absolute(f) = is_absolute(b)
        /\ LeadsWithCurDir(f) = LeadsWithCurDir(b)

\* C17 amended: for a path f and a base b of the round trip case, f.diff(b)
\* is Some(d) and b.join(d).collapse() is f; every file found under a base
\* without ".." is of that case.
C17_RoundTripCollapsed ==
  (phase = "returned" /\ call.kind = "diff" /\ RoundTripCase(call.path, call.base)) =>
     (out.diff.some /\ out.rejoined = Some(call.path))

\* a round trip through "..": the second case of test_spath_spath_diff
C17_Witness ==
  /\ DiffReturned
  /\ call.base = <<"/", "a", "/", "c">>
  /\ call.path = <<"/", "a", "/", "a", "/", "c">>
  /\ out.diff = Some(<<".", ".", "/", "a", "/", "c">>)
  /\ out.rejoined = Some(call.path)

\* what collapsing is said to do, on components: ".." takes back the normal
\* component before it, is dropped at the root of an absolute path, and stays
\* otherwise; "." stays only as the leading component
RECURSIVE CollapsedAsDocumented(_, _, _)
CollapsedAsDocumented(comps, i, kept) ==
  IF i > Len(comps) THEN kept
  ELSE IF comps[i] = CurDir
    THEN CollapsedAsDocumented(comps, i + 1, IF kept = <<>> THEN <<CurDir>> ELSE kept)
  ELSE IF comps[i] = ParentDir
    THEN IF kept # <<>> /\ IsNormal(kept[Len(kept)])
         THEN CollapsedAsDocumented(comps, i + 1, SubSeq(kept, 1, Len(kept) - 1))
         ELSE IF kept # <<>> /\ kept[1] = RootDir
         THEN CollapsedAsDocumented(comps, i + 1, kept)
         ELSE CollapsedAsDocumented(comps, i + 1, Append(kept, ParentDir))
  ELSE CollapsedAsDocumented(comps, i + 1, Append(kept, comps[i]))

IntoCollapsedReturned == phase = "returned" /\ call.kind = "into_collapsed"

\* C18: into_collapsed resolves every ".." after a normal component, removes
\* every "." but the leading one, keeps the leading ".." of a relative path,
\* and drops from an absolute path every ".." that would go above the root.
C18_IntoCollapsed ==
  IntoCollapsedReturned =>
     Components(out) = CollapsedAsDocumented(Components(call.path), 1, <<>>)

\* the same for relative paths only
C18_RelativeOnly ==
  (IntoCollapsedReturned /\ ~is_absolute(call.path)) =>
     Components(out) = CollapsedAsDocumented(Components(call.path), 1, <<>>)

\* a relative path navigates above its starting point when a ".." is left
\* after collapsing
NavigatesAbove(path) ==
  Bind(CollapsedAsDocumented(Components(path), 1, <<>>), LAMBDA kept :
    \E k \in 1..Len(kept) : kept[k] = ParentDir)

TryIntoCollapsedReturned == phase = "returned" /\ call.kind = "try_into_collapsed"

\* C19: try_into_collapsed returns None for a path with a root component and
\* for a path whose ".." navigate above its starting point, and Some of the
\* result of into_collapsed for every other path.
C19_TryIntoCollapsed ==
  TryIntoCollapsedReturned =>
     out = IF is_absolute(call.path) \/ NavigatesAbove(call.path)
           THEN None
           ELSE Some(into_collapsed(call.path))

\* the same without the paths that navigate above their starting point
C19_WithinStart ==
  (TryIntoCollapsedReturned /\ ~NavigatesAbove(call.path)) =>
     out = IF is_absolute(call.path) THEN None ELSE Some(into_collapsed(call.path))

\* ------------------------------------------------------------------ watch

\* SEventKind::from(notify::EventKind)
SEventKind_from(kind) ==
  CASE kind = "Create" -> "Create"
    [] kind = "Modify" -> "Modify"
    [] kind = "Remove" -> "Remove"
    [] OTHER -> "Other"

\* SPath::from_path_buf_ok: None for a path that is not UTF-8
from_path_buf_ok(path) == IF path.utf8 THEN Some(SPathNew(path.s)) ELSE None

\* a set of keys in which no key is ever found
sevents_set_contains_never(sevents_set, key) == FALSE

\* HashSet::contains on the SEventKey (spath_string, skind)
sevents_set_contains(sevents_set, key) == key \in sevents_set

\* build_sevents: the loop over the paths of one event
RECURSIVE PathsLoop(_, _, _, _)
PathsLoop(paths, i, skind, acc) ==
  IF i > Len(paths) THEN acc
  ELSE Bind(from_path_buf_ok(paths[i]), LAMBDA spath :
         IF spath.some /\ ~sevents_set_contains(acc.sevents_set, <<spath.val, skind>>)
         THEN PathsLoop(paths, i + 1, skind,
                        [sevents |-> Append(acc.sevents, [spath |-> spath.val, skind |-> skind]),
                         sevents_set |-> acc.sevents_set \cup {<<spath.val, skind>>}])
         ELSE PathsLoop(paths, i + 1, skind, acc))

\* build_sevents: the loop over the debounced events
RECURSIVE EventsLoop(_, _, _)
EventsLoop(events, i, acc) ==
  IF i > Len(events) THEN acc
  ELSE EventsLoop(events, i + 1,
                  PathsLoop(events[i].paths, 1, SEventKind_from(events[i].kind), acc))

build_sevents(events) == EventsLoop(events, 1, [sevents |-> <<>>, sevents_set |-> {}]).sevents

\* EventHandler::handle_event: what is sent on tx, None when nothing is
handle_event(result) ==
  IF ~result.ok THEN None
  ELSE Bind(build_sevents(result.events), LAMBDA sevents :
         IF sevents # <<>> THEN Some(sevents) ELSE None)

\* the most batches the debouncer delivers
MaxBatches == 2

\* the paths of the events: two spellings of one path, another path, and a
\* path that is not UTF-8
W_a_c == [utf8 |-> TRUE, s |-> <<"a", "/", "c">>]
W_a__c == [utf8 |-> TRUE, s |-> <<"a", "/", "/", "c">>]
W_c == [utf8 |-> TRUE, s |-> <<"c">>]
W_bad == [utf8 |-> FALSE, s |-> <<>>]
WatchPathLists == { <<>>, <<W_a_c>>, <<W_c>>, <<W_bad>>, <<W_a_c, W_a__c>>, <<W_bad, W_c>> }
WatchKinds == { "Create", "Modify", "Access", "Other" }
WatchEvents == { [kind |-> k, paths |-> p] : k \in WatchKinds, p \in WatchPathLists }
WatchResults ==
  {[ok |-> FALSE, events |-> <<>>]} \cup
  {[ok |-> TRUE, events |-> e] :
      e \in {<<>>} \cup {<<a>> : a \in WatchEvents} \cup {<<a, b>> : a, b \in WatchEvents}}

\* watch(): the channel is created, nothing was sent
Watch ==
  /\ phase = "idle"
  /\ phase' = "watching"
  /\ call' = [kind |-> "watch"]
  /\ out' = [handled |-> 0, sent |-> 0, last |-> None]
  /\ UNCHANGED <<cfg, st>>

\* the debouncer delivers a batch to EventHandler::handle_event
HandleEvent ==
  /\ phase = "watching"
  /\ out.handled < MaxBatches
  /\ \E result \in WatchResults :
       \E sent \in {handle_event(result)} :
          /\ call' = [kind |-> "handle_event", result |-> result]
          /\ out' = [handled |-> out.handled + 1,
                     sent |-> IF sent.some THEN out.sent + 1 ELSE out.sent,
                     last |-> sent]
  /\ UNCHANGED <<phase, cfg, st>>

NextWatch == Watch \/ HandleEvent

SpecWatch == Init /\ [][NextWatch]_vars

Handled == phase = "watching" /\ call.kind = "handle_event"

\* the (path, kind) pairs of the UTF-8 paths of a batch, in the order of the batch
RECURSIVE PairsOf(_)
PairsOf(events) ==
  IF events = <<>> THEN <<>>
  ELSE Bind(SelectSeq(Head(events).paths, LAMBDA p : p.utf8), LAMBDA ps :
         [k \in 1..Len(ps) |-> [spath |-> SPathNew(ps[k].s),
                                skind |-> SEventKind_from(Head(events).kind)]])
       \o PairsOf(Tail(events))

FirstAt(v, x) == CHOOSE i \in 1..Len(v) : v[i] = x /\ \A j \in 1..(i - 1) : v[j] # x

Simplified(sent, pairs) ==
  /\ sent # <<>>
  /\ \A i, j \in 1..Len(sent) : i # j => sent[i] # sent[j]
  /\ \A i \in 1..Len(sent) : \E k \in 1..Len(pairs) : pairs[k] = sent[i]
  /\ \A k \in 1..Len(pairs) : \E i \in 1..Len(sent) : sent[i] = pairs[k]
  /\ \A i, j \in 1..Len(sent) : i < j => FirstAt(pairs, sent[i]) < FirstAt(pairs, sent[j])

\* C20: every Vec<SEvent> sent is non-empty and has no two events with the
\* same (path, kind); its events are the pairs of the batch in the order of
\* their first occurrence; a batch without a UTF-8 path sends nothing.
C20_Simplification ==
  Handled =>
     /\ out.last.some => (call.result.ok /\ Simplified(out.last.val, PairsOf(call.result.events)))
     /\ (call.result.ok /\ PairsOf(call.result.events) = <<>>) => ~out.last.some

\* a second batch whose two spellings of one path were sent as one event
C20_Witness ==
  /\ Handled
  /\ out.handled = 2 /\ out.sent = 2
  /\ call.result.events = <<[kind |-> "Access", paths |-> <<W_a_c, W_a__c>>],
                            [kind |-> "Other", paths |-> <<W_bad, W_c>>]>>
  /\ out.last = Some(<<[spath |-> <<"a", "/", "c">>, skind |-> "Other"],
                       [spath |-> <<"c">>, skind |-> "Other"]>>)

\* ------------------------------------------------------------------ directory listing

\* the directories the walk of the call's directory visits: those at or below
\* it, no deeper than the caller's depth
WalkedDirs ==
  Bind(Resolve(SPathNew(call.dir)), LAMBDA baseNode :
    {d \in FsDirs : /\ IsUnder(d, baseNode)
                    /\ CallDepth.some => Len(d) - Len(baseNode) <= CallDepth.val})

\* the path under which the walk produces a directory
WalkedPath(d) ==
  Bind(Resolve(SPathNew(call.dir)), LAMBDA baseNode :
    SPathNew(PathCollect(SPathNew(call.dir), SubSeq(d, Len(baseNode) + 1, Len(d)))))

\* a pattern of the directory listing matches a path ("*" crosses "/")
DirPatMatch(pattern, path) == GlobIsMatch(GlobParse(pattern).toks, path, FALSE)

\* the include patterns the caller supplied, and the exclude set: the caller's
\* excludes and the negated include patterns
DirCallIncludes == IF call.include_globs.some THEN split_negated(call.include_globs.val).includes ELSE <<>>
DirCallExcludes ==
  {CallExcludes[i] : i \in 1..Len(CallExcludes)} \cup
  (IF call.include_globs.some
   THEN Bind(split_negated(call.include_globs.val).excludes, LAMBDA x : {x[i] : i \in 1..Len(x)})
   ELSE {})

\* the path the patterns are tested on
DirTestPath(path) == IF CallRelative THEN diff(path, SPathNew(call.dir)) ELSE Some(path)

DirMatchesExclude(path) ==
  Bind(DirTestPath(path), LAMBDA m :
    m.some /\ \E x \in DirCallExcludes : DirPatMatch(x, m.val))

DirMatchesInclude(path) ==
  Bind(DirTestPath(path), LAMBDA m :
    \/ DirCallIncludes = <<>>
    \/ m.some /\ \E i \in 1..Len(DirCallIncludes) : DirPatMatch(DirCallIncludes[i], m.val))

Yielded(path) == \E i \in 1..Len(out) : out[i] = path

\* C21: GlobsDirIter yields only directories, and yields a walked directory
\* exactly when it does not match the exclude set and no include pattern was
\* supplied or one matches its path (relative to the base in relative mode).
C21_DirListing ==
  DirsDone =>
     /\ \A i \in 1..Len(out) : \E d \in WalkedDirs : out[i] = WalkedPath(d)
     /\ \A d \in WalkedDirs :
           Yielded(WalkedPath(d)) <=>
              (~DirMatchesExclude(WalkedPath(d)) /\ DirMatchesInclude(WalkedPath(d)))

\* a finished relative listing that yielded ./s for "s/*"-like patterns and
\* left other walked directories out
C21_Witness ==
  /\ DirsDone
  /\ CallRelative
  /\ DirCallIncludes # <<>>
  /\ Len(out) >= 1
  /\ \E d \in WalkedDirs : ~Yielded(WalkedPath(d))


\* ------------------------------------------------------------------ excluded directories

\* excludes that match a directory which has a directory below it
X_any_s == <<"*", "*", "/", "s">>
X_s == <<"s">>
G_not_s == <<"!", "*", "*", "/", "s">>

ExcludingIncludes == {None, Some(<<G_all>>), Some(<<G_all, G_not_s>>), Some(<<G_not_s>>)}
ExcludingOptions ==
  {None} \cup {Some(ListOptions(x, r, None)) :
                 x \in {None, Some(<<X_any_s>>), Some(<<X_s>>)}, r \in BOOLEAN}

\* GlobsDirIter::new with an exclude for a directory that has subdirectories
NewDirsExcluding ==
  /\ phase = "idle"
  /\ \E dir \in Dirs, g \in ExcludingIncludes, o \in ExcludingOptions :
       \E c \in {GlobsDirIter_new(dir, g, o)} :
          /\ call' = [kind |-> "dirs", dir |-> dir, include_globs |-> g, list_options |-> o]
          /\ cfg' = c
          /\ phase' = IF c.ok THEN "dirs" ELSE "error"
  /\ st' = NewIterState
  /\ out' = <<>>

NextExcluding == NewDirsExcluding \/ NextDir

SpecExcluding == Init /\ [][NextExcluding]_vars

\* a walked directory at or above the node matches the exclude set
AtOrBelowExcluded(node) ==
  \E d \in WalkedDirs : IsUnder(node, d) /\ DirMatchesExclude(WalkedPath(d))

\* C22: GlobsDirIter yields neither a directory that matches the exclude set
\* nor a directory located below such a directory.
C22_ExcludedSubtree ==
  DirsLive => \A i \in 1..Len(out) : ~AtOrBelowExcluded(Resolve(out[i]))

\* the part about the directory itself: no yielded directory matches the
\* exclude set
C22_ExcludedItself ==
  DirsLive => \A i \in 1..Len(out) : ~DirMatchesExclude(out[i])


\* ------------------------------------------------------------------ glob_literal_prefixes

MaxPatternSegs == 4

\* the segments the patterns are made of: a literal, wildcards, "..", ".", an
\* empty segment, brace groups (with a blank, nested, partial, empty); a
\* leading "." segment gives the pattern its "./"
PatternSegs ==
  { <<"a">>, <<"*">>, <<"b", "?">>, <<"[", "a", "]">>, ParentDir, CurDir, <<>>,
    <<"{", "a", ",", " ", "c", "}">>, <<"{", "a", ",", "{", "b", "}", "}">>,
    <<"a", "{", "b", "}">>, <<"{", "}">> }

\* one call of glob_literal_prefixes
GlobLiteralPrefixesCall ==
  /\ phase = "idle"
  /\ \E k \in 0..MaxPatternSegs : \E segs \in [1..k -> PatternSegs] :
        \E pattern \in {JoinSegs(segs)} :
           /\ call' = [kind |-> "glob_literal_prefixes", pattern |-> pattern]
           /\ out' = glob_literal_prefixes(pattern)
  /\ phase' = "returned"
  /\ UNCHANGED <<cfg, st>>

NextPrefixes == GlobLiteralPrefixesCall

SpecPrefixes == Init /\ [][NextPrefixes]_vars

PrefixesReturned == phase = "returned" /\ call.kind = "glob_literal_prefixes"

\* the segments of a pattern: leading "./" dropped, then the empty and the
\* "." segments
PatternSegments(p) ==
  SelectSeq(SplitOn(trim_start_dot_slash(p), "/"), LAMBDA x : x # <<>> /\ x # CurDir)

HasBrace(seg) == HasChar(seg, "{") \/ HasChar(seg, "}")

\* the options of a segment "{a,b,...}": the pieces between the commas,
\* blanks around them and empty pieces dropped
BraceOptions(seg) ==
  SelectSeq([i \in 1..Len(SplitOn(SubSeq(seg, 2, Len(seg) - 1), ",")) |->
               trim(SplitOn(SubSeq(seg, 2, Len(seg) - 1), ",")[i])],
            LAMBDA o : o # <<>>)

\* a single un-nested group {a,b,...}
IsBraceGroup(seg) ==
  /\ Len(seg) >= 2 /\ seg[1] = "{" /\ seg[Len(seg)] = "}"
  /\ ~HasBrace(SubSeq(seg, 2, Len(seg) - 1))
  /\ BraceOptions(seg) # <<>>

\* the walk stops at this segment
StopsAt(seg) ==
  \/ HasChar(seg, "*") \/ HasChar(seg, "?") \/ HasChar(seg, "[")
  \/ seg = ParentDir
  \/ HasBrace(seg) /\ ~IsBraceGroup(seg)

\* how many of the segments but the last are walked before the stop
RECURSIVE WalkedCount(_, _)
WalkedCount(segs, i) ==
  IF i > Len(segs) - 1 \/ StopsAt(segs[i]) THEN i - 1 ELSE WalkedCount(segs, i + 1)

\* every combination of one option per walked segment, joined by "/", the
\* earlier segment varying slowest
RECURSIVE Combinations(_)
Combinations(segs) ==
  IF segs = <<>> THEN << <<>> >>
  ELSE Bind(IF IsBraceGroup(Head(segs)) THEN BraceOptions(Head(segs)) ELSE <<Head(segs)>>, LAMBDA options :
       Bind(Combinations(Tail(segs)), LAMBDA rest :
         [n \in 1..(Len(options) * Len(rest)) |->
            Bind(options[((n - 1) \div Len(rest)) + 1], LAMBDA o :
            Bind(rest[((n - 1) % Len(rest)) + 1], LAMBDA r :
              IF r = <<>> THEN o ELSE o \o <<"/">> \o r))]))

PrefixesAsDescribed(p) ==
  Bind(PatternSegments(p), LAMBDA segs :
    IF Len(segs) <= 1 THEN <<>>
    ELSE Bind(WalkedCount(segs, 1), LAMBDA k :
           IF k = 0 THEN <<>> ELSE Combinations(SubSeq(segs, 1, k))))

\* C23: glob_literal_prefixes returns nothing for a pattern of at most one
\* segment; otherwise it walks the segments but the last, stops at the first
\* wildcard, "..", or irregular brace segment, expands a {a,b,...} segment
\* over every accumulated prefix, and returns what was accumulated.
C23_LiteralPrefixes == PrefixesReturned => out = PrefixesAsDescribed(call.pattern)

\* a call that expanded a brace group below a literal and stopped at a wildcard
\* before the last segment
C23_Witness ==
  /\ PrefixesReturned
  /\ Len(out) = 2
  /\ Len(PatternSegments(call.pattern)) = 4
  /\ WalkedCount(PatternSegments(call.pattern), 1) = 2
  /\ IsBraceGroup(PatternSegments(call.pattern)[2])
  /\ HasChar(PatternSegments(call.pattern)[3], "?")


\* the pattern's segments but the last are plain literals
LiteralDirPart(p) ==
  Bind(PatternSegments(p), LAMBDA segs :
    /\ Len(segs) >= 2
    /\ \A i \in 1..(Len(segs) - 1) : ~StopsAt(segs[i]) /\ ~HasBrace(segs[i]))

\* d1, d1/d2, ..., d1/.../dk for the directory part d1/.../dk
LeadingPaths(p) ==
  Bind(PatternSegments(p), LAMBDA segs :
    [i \in 1..(Len(segs) - 1) |-> JoinSegs(SubSeq(segs, 1, i))])

\* C30: for a pattern whose directory part is the literal segments d1/.../dk,
\* glob_literal_prefixes returns every leading path [d1, d1/d2, ..., d1/.../dk],
\* shortest first.
C30_EveryLeadingPath ==
  PrefixesReturned /\ LiteralDirPart(call.pattern) => out = LeadingPaths(call.pattern)

\* what is returned for such a pattern: the whole directory part alone
C30_LongestOnly ==
  PrefixesReturned /\ LiteralDirPart(call.pattern) =>
     out = <<JoinSegs(SubSeq(PatternSegments(call.pattern), 1, Len(PatternSegments(call.pattern)) - 1))>>


\* ------------------------------------------------------------------ group prefix sets

\* the groups process_globs returned to the constructor
GroupsBuilt == call.kind = "files" /\ phase \in {"files", "done"}

\* the literal prefixes of the group's final patterns, as a set
PrefixUnion(group) ==
  UNION {{glob_literal_prefixes(group.patterns[i])[j] :
            j \in 1..Len(glob_literal_prefixes(group.patterns[i]))} :
         i \in 1..Len(group.patterns)}

\* one of the group's final patterns has no literal prefix
SomePatternUnprefixed(group) ==
  \E i \in 1..Len(group.patterns) : glob_literal_prefixes(group.patterns[i]) = <<>>

StrictlySorted(v) == \A i \in 1..(Len(v) - 1) : StrLess(v[i], v[i + 1])

\* the group came out of a merge: process_globs returned fewer groups than it
\* collected
MergeHappened ==
  Len(process_globs(cfg.main_base, CallIncludes)) < Len(pre_merge_groups(cfg.main_base, CallIncludes))

\* C24: in every group process_globs returns, merged or not, prefixes is empty
\* if one of the final patterns has no literal prefix, and otherwise the
\* sorted, duplicate-free union of the literal prefixes of the final patterns.
C24_GroupPrefixes ==
  GroupsBuilt =>
     \A g \in 1..Len(cfg.groups) :
        IF SomePatternUnprefixed(cfg.groups[g])
        THEN cfg.groups[g].prefixes = <<>>
        ELSE /\ {cfg.groups[g].prefixes[i] : i \in 1..Len(cfg.groups[g].prefixes)} = PrefixUnion(cfg.groups[g])
             /\ StrictlySorted(cfg.groups[g].prefixes)

\* a group of two patterns whose three collected prefixes come out as two,
\* in another order than they were collected
C24_Witness ==
  /\ GroupsBuilt
  /\ \E g \in 1..Len(cfg.groups) :
        /\ Len(cfg.groups[g].patterns) = 2
        /\ Len(glob_literal_prefixes(cfg.groups[g].patterns[1])) = 1
        /\ Len(glob_literal_prefixes(cfg.groups[g].patterns[2])) = 2
        /\ Len(cfg.groups[g].prefixes) = 2
        /\ cfg.groups[g].prefixes[2] = glob_literal_prefixes(cfg.groups[g].patterns[1])[1]


\* ------------------------------------------------------------------ directory pruning

\* patterns with a directory part: a prefix of two components, a prefix with
\* directories below it, a brace group, a directory the tree does not have
P_s_t_star == <<"s", "/", "t", "/", "*">>
P_s_any_f == <<"s", "/", "*", "*", "/", "f">>
P_x_f == <<"x", "/", "f">>
PrunedPool == { P_s_t_star, P_s_any_f, G_brace, P_x_f }
PrunedIncludes ==
  {Some(<<a>>) : a \in PrunedPool} \cup {Some(<<a, b>>) : a \in PrunedPool, b \in PrunedPool}
PrunedOptions ==
  {None} \cup {Some(ListOptions(x, r, d)) :
                 x \in ExcludeLists, r \in BOOLEAN, d \in {None, Some(MaxDepthArg)}}

\* GlobsFileIter::new with patterns that all carry a literal prefix
NewFilesPruned ==
  /\ phase = "idle"
  /\ \E dir \in Dirs, g \in PrunedIncludes, o \in PrunedOptions :
       \E c \in {GlobsFileIter_new(dir, g, o)} :
          /\ call' = [kind |-> "files", dir |-> dir, include_globs |-> g, list_options |-> o]
          /\ cfg' = c
          /\ phase' = IF c.ok THEN "files" ELSE "error"
  /\ st' = NewIterState
  /\ out' = <<>>

NextPruned == NewFilesPruned \/ NextFile

SpecPruned == Init /\ [][NextPruned]_vars

IsSeqPrefix(a, b) == Len(a) <= Len(b) /\ SubSeq(b, 1, Len(a)) = a

\* the names from the group's base down to the node
NamesBelow(group, node) == SubSeq(node, Len(Resolve(group.base)) + 1, Len(node))

\* the directory's path relative to the base and an allowed prefix: one is a
\* whole-component prefix of the other
PrefixRelated(group, node) ==
  \E i \in 1..Len(group.prefixes) :
     \/ IsSeqPrefix(NamesBelow(group, node), SplitOn(group.prefixes[i], "/"))
     \/ IsSeqPrefix(SplitOn(group.prefixes[i], "/"), NamesBelow(group, node))

\* the test the claim states for one directory of the group's walk
PassesPruning(group, node) ==
  /\ node = Resolve(group.base) \/ PrefixRelated(group, node)
  /\ ~DirExcludedInWalk(group, PathCollect(group.base, NamesBelow(group, node)))

\* the directories the walk of the group descends into: those above the
\* group's depth that pass the test, as does every directory on the way
\* from the base
DescendedAsStated(group) ==
  {d \in FsDirs :
     /\ IsUnder(d, Resolve(group.base))
     /\ Len(NamesBelow(group, d)) < group.depth
     /\ \A k \in Len(Resolve(group.base))..Len(d) : PassesPruning(group, SubSeq(d, 1, k))}

ReadSet(g) == {ReadsOfGroup(g)[k] : k \in 1..Len(ReadsOfGroup(g))}

Pruning(g) == cfg.groups[g].prefixes # <<>>

\* C25: in the walk of a group with a non-empty prefix set a directory is
\* descended into exactly when it is the base or prefix-related to an allowed
\* prefix, and not excluded; nothing below a rejected directory is read; a
\* file in a directory that was read is not held back by the prefix test.
C25_DirectoryPruning ==
  FilesLive =>
     \A g \in 1..Len(cfg.groups) :
        Pruning(g) =>
           /\ ReadSet(g) \subseteq DescendedAsStated(cfg.groups[g])
           /\ st.gi > g => ReadSet(g) = DescendedAsStated(cfg.groups[g])
           /\ st.gi > g =>
                \A f \in FsFiles :
                   (/\ SubSeq(f, 1, Len(f) - 1) \in ReadSet(g)
                    /\ file_filter(cfg, cfg.groups[g], PathCollect(cfg.groups[g].base, NamesBelow(cfg.groups[g], f))))
                   => YieldCount(f) >= 1

\* a finished pruned walk that went through a directory above an allowed
\* prefix of two components, read the prefix directory, left a sibling
\* directory unread and yielded a file
C25_Witness ==
  /\ FilesDone
  /\ Len(out) >= 1
  /\ Len(cfg.groups) = 1 /\ Pruning(1)
  /\ \E i \in 1..Len(cfg.groups[1].prefixes) : Len(SplitOn(cfg.groups[1].prefixes[i], "/")) = 2
  /\ <<N_p, N_s>> \in ReadSet(1)
  /\ <<N_p, N_s, N_t>> \in ReadSet(1)
  /\ <<N_p, N_sp_b>> \notin ReadSet(1)


\* ------------------------------------------------------------------ depth of a group's walk

\* the path-separator-delimited segments of a pattern ("\" is a separator too)
RECURSIVE SeparatorSegments(_, _)
SeparatorSegments(g, cur) ==
  IF g = <<>> THEN <<cur>>
  ELSE IF Head(g) \in {"/", "\\"} THEN <<cur>> \o SeparatorSegments(Tail(g), <<>>)
  ELSE SeparatorSegments(Tail(g), Append(cur, Head(g)))

SegmentCount(g) == Len(SeparatorSegments(g, <<>>))

\* the greatest segment count among the patterns, 0 for none
MaxSegmentCount(patterns) ==
  IF patterns = <<>> THEN 0
  ELSE CHOOSE m \in {SegmentCount(patterns[i]) : i \in 1..Len(patterns)} :
          \A i \in 1..Len(patterns) : SegmentCount(patterns[i]) <= m

AtLeastOne(n) == IF n < 1 THEN 1 ELSE n

\* the caller gave no depth and no pattern of the group contains "**"
DepthFromSegments(group) ==
  /\ ~CallDepth.some
  /\ \A i \in 1..Len(group.patterns) : ~HasSub(group.patterns[i], <<"*", "*">>)

\* C28 as stated: without an explicit depth and without "**" the depth of a
\* group's walk is the greatest segment count of the group's patterns plus
\* one, and at least 1.
C28_SegmentsPlusOne ==
  FilesLive =>
     \A g \in 1..Len(cfg.groups) :
        DepthFromSegments(cfg.groups[g]) =>
           cfg.groups[g].depth = AtLeastOne(MaxSegmentCount(cfg.groups[g].patterns) + 1)

\* C28 amended: without an explicit depth and without "**" the depth of a
\* group's walk is the greatest segment count of the group's patterns (the
\* separator count plus one), and at least 1.
C28_SegmentCount ==
  FilesLive =>
     \A g \in 1..Len(cfg.groups) :
        DepthFromSegments(cfg.groups[g]) =>
           cfg.groups[g].depth = AtLeastOne(MaxSegmentCount(cfg.groups[g].patterns))

\* a group with the patterns * and s/*, walked two levels deep
C28_Witness ==
  /\ FilesLive
  /\ Len(cfg.groups) = 1
  /\ DepthFromSegments(cfg.groups[1])
  /\ Len(cfg.groups[1].patterns) = 2
  /\ SegmentCount(cfg.groups[1].patterns[1]) = 1
  /\ SegmentCount(cfg.groups[1].patterns[2]) = 2
  /\ cfg.groups[1].depth = 2


\* ------------------------------------------------------------------ depth cap and termination

\* listings with bounded and unbounded patterns, with and without a depth
CappedIncludes == {None, Some(<<G_star>>), Some(<<G_all>>), Some(<<G_s_star>>), Some(<<G_any_f, G_abs_s>>)}
CappedOptions == {None} \cup {Some(ListOptions(None, r, d)) : r \in BOOLEAN, d \in DepthArgs}

NewFilesCapped ==
  /\ phase = "idle"
  /\ \E dir \in Dirs, g \in CappedIncludes, o \in CappedOptions :
       \E c \in {GlobsFileIter_new(dir, g, o)} :
          /\ call' = [kind |-> "files", dir |-> dir, include_globs |-> g, list_options |-> o]
          /\ cfg' = c
          /\ phase' = IF c.ok THEN "files" ELSE "error"
  /\ st' = NewIterState
  /\ out' = <<>>

NextCapped == NewFilesCapped \/ NextFile

\* the consumer of an iterator (list_files collects it) keeps calling next
\* until it gets None.  This is weak fairness of NextFile, written out: a call
\* of next is possible exactly while phase = "files", and every call changes
\* out or phase.
PullsOn == []<>(phase # "files") \/ []<><<NextFile>>_vars

SpecCapped == Init /\ [][NextCapped]_vars /\ PullsOn

\* the cap of group g: get_depth of its rewritten patterns and the caller's depth
DepthCap(g) == get_depth(cfg.groups[g].patterns, CallDepth)

\* how many levels the node lies below the base of group g
LevelsBelow(g, node) == Len(node) - Len(Resolve(cfg.groups[g].base))

\* every directory whose entries the walk of a group visited lies less than
\* the cap below the group's base (its entries at most the cap), and so does
\* the directory of every yielded file, for one of the groups
DepthCapped ==
  FilesLive =>
     /\ \A r \in 1..Len(st.reads) : LevelsBelow(st.reads[r].g, st.reads[r].node) < DepthCap(st.reads[r].g)
     /\ \A i \in 1..Len(out) :
           \E g \in 1..Len(cfg.groups) :
              /\ IsUnder(Resolve(out[i]), Resolve(cfg.groups[g].base))
              /\ LevelsBelow(g, Resolve(out[i])) <= DepthCap(g)
     /\ \A g \in 1..Len(cfg.groups) :
           (~CallDepth.some /\ \E i \in 1..Len(cfg.groups[g].patterns) :
                                  HasSub(cfg.groups[g].patterns[i], <<"*", "*">>))
           => DepthCap(g) = TOP_MAX_DEPTH

\* C27: the walk of a group never visits an entry more than get_depth(the
\* group's patterns, the caller's depth) levels below the group's base, the
\* sentinel 100 standing in for an unbounded pattern, and an iterator that is
\* pulled again and again eventually returns None.
C27_DepthCapAndEnd ==
  /\ []DepthCapped
  /\ (call.kind = "files" /\ phase = "files") ~> (call.kind = "files" /\ phase = "done")

\* a finished listing with ** and depth 1: the file in the base was yielded,
\* the directory s below the base was not read
C27_Witness ==
  /\ FilesDone
  /\ CallDepth = Some(1)
  /\ Len(cfg.groups) = 1
  /\ cfg.groups[1].patterns = <<G_all>>
  /\ YieldCount(<<N_p, N_f>>) = 1
  /\ \A r \in 1..Len(st.reads) : st.reads[r].node # <<N_p, N_s>>
  /\ YieldCount(<<N_p, N_s, N_f>>) = 0


\* ------------------------------------------------------------------ process_globs on its own

Str_project == <<"/", "p", "r", "o", "j", "e", "c", "t">>
Str_src == <<"s", "r", "c">>

\* the caller's bases and the patterns given to process_globs
GroupBases == { Str_project, Str_project \o <<"/">> \o Str_src, <<".", "/">> }
A_src_rs == Str_project \o <<"/">> \o Str_src \o <<"/", "*", "*", "/", "*", ".", "r", "s">>
A_src_star == Str_project \o <<"/">> \o Str_src \o <<"/", "*", ".", "r", "s">>
A_project_star == Str_project \o <<"/", "*">>
A_quest == Str_project \o <<"/", "d", "?", "c", "/", "x">>
A_literal == Str_project \o <<"/">> \o Str_src \o <<"/", "m", ".", "r", "s">>
A_up == Str_project \o <<"/", ".", ".", "/", "q", "/", "*">>
Rel_md == <<"*", ".", "m", "d">>
Rel_src == Str_src \o <<"/", "*", ".", "r", "s">>
GroupPatterns == { A_src_rs, A_src_star, A_project_star, A_quest, A_literal, A_up, Rel_md, Rel_src }
GroupPatternLists ==
  {<<a>> : a \in GroupPatterns} \cup {<<a, b>> : a, b \in GroupPatterns}

\* one call of process_globs
ProcessGlobsCall ==
  /\ phase = "idle"
  /\ \E main_base \in GroupBases, globs \in GroupPatternLists :
        /\ call' = [kind |-> "process_globs", main_base |-> SPathNew(main_base), globs |-> globs]
        /\ out' = process_globs(SPathNew(main_base), globs)
  /\ phase' = "returned"
  /\ UNCHANGED <<cfg, st>>

NextGroups == ProcessGlobsCall

SpecGroups == Init /\ [][NextGroups]_vars

GroupsReturned == phase = "returned" /\ call.kind = "process_globs"

HasWildcard(comp) == HasChar(comp, "*") \/ HasChar(comp, "?")

\* how many leading components of the pattern hold no wildcard character
RECURSIVE LiteralRun(_)
LiteralRun(comps) ==
  IF comps = <<>> \/ HasWildcard(Head(comps)) THEN 0 ELSE 1 + LiteralRun(Tail(comps))

\* the absolute patterns of the call, in the caller's order
AbsoluteGlobs == SelectSeq(call.globs, LAMBDA g : is_absolute(SPathNew(g)))

\* the pairs process_globs holds before its merge pass
PreMerge == pre_merge_groups(call.main_base, call.globs)

\* the pattern's rewriting is among the patterns of the pre-merge pair k
HeldBy(k, g) ==
  \E i \in 1..Len(PreMerge[k].patterns) :
     PreMerge[k].patterns[i] = relative_from_absolute(SPathNew(g), PreMerge[k].base)

DocExampleCall ==
  /\ GroupsReturned
  /\ call.main_base = Str_project
  /\ call.globs = <<A_src_rs, Rel_md>>

\* C29: for main_base = /project and globs [/project/src/**/*.rs, *.md]
\* process_globs returns two groups, one with base /project/src and patterns
\* [**/*.rs], one with base /project and patterns [*.md].
C29_DocExample ==
  DocExampleCall =>
     /\ Len(out) = 2
     /\ \E i \in 1..2 :
           /\ out[i].base = Str_project \o <<"/">> \o Str_src
           /\ out[i].patterns = << <<"*", "*", "/", "*", ".", "r", "s">> >>
     /\ \E i \in 1..2 :
           /\ out[i].base = Str_project
           /\ out[i].patterns = <<Rel_md>>

\* what the pairs are before the merge pass: the two groups of the example
C29_BeforeMerge ==
  DocExampleCall =>
     /\ Len(PreMerge) = 2
     /\ PreMerge[1] = [base |-> Str_project, patterns |-> <<Rel_md>>]
     /\ PreMerge[2] = [base |-> Str_project \o <<"/">> \o Str_src,
                       patterns |-> << <<"*", "*", "/", "*", ".", "r", "s">> >>]

\* what process_globs returns for the example: one group on /project/src
C29_Returned ==
  DocExampleCall =>
     /\ Len(out) = 1
     /\ out[1].base = Str_project \o <<"/">> \o Str_src
     /\ out[1].patterns = << <<"*", "*", "/", "*", ".", "r", "s">>, <<".", ".", "/", "*", ".", "m", "d">> >>

====
